---- MODULE Spec2Model ----
(***************************************************************************)
(* Hybrid-Program-Synthesis-with-RSI, validation and interpretation core:  *)
(* the structural validators (src/systemtest/validators.py), the bounded   *)
(* interpreter, semantic hasher and utility scorer                         *)
(* (src/safe_interpreter.py) and the watchdog execution paths              *)
(* (src/systemtest/execution.py, src/rsi_watchdog_loop.py).                *)
(*                                                                         *)
(* Python strings that the code inspects character by character            *)
(* (identifiers, canonical hash keys) are sequences of one-character       *)
(* strings; syntax-node class names are plain strings.                     *)
(***************************************************************************)
EXTENDS Integers, Sequences, FiniteSets, TLC

VARIABLES
    cand,               \* validator: the candidate text under validation
    verdicts,           \* validator: policy -> result of the validate_* call on cand
    last_call,          \* execution paths: the last run_safe call made for cand, if any
    trial,              \* run_trials: the candidate under evaluation and its io pairs left
    custom_primitives,  \* interpreter: SafeInterpreter._custom_primitives (ordered dict)
    step_count,         \* interpreter: SafeInterpreter._step_count
    pc,                 \* interpreter: "idle", or "run" while run() is on the stack
    ctl,                \* interpreter: what run() does next (a call of _eval, or a return)
    stack,              \* interpreter: the active _eval_app frames, innermost last
    run_input,          \* interpreter: the (expr, env) of the current / last run
    outcome,            \* interpreter: result of the last register / unregister / run
    h_in,               \* hasher: the expressions handed to SemanticHasher.hash
    h_out,              \* hasher: the keys it returned
    score_in,           \* scorer: the arguments of the last UtilityScorer.should_keep call
    score_out,          \* scorer: what it returned
    loop,               \* run_loop: its arguments, its position and what it has done
    first_run           \* interpreter: the first run completed since the record was armed

valVars    == <<cand, verdicts>>
execVars   == <<last_call, trial>>
interpVars == <<custom_primitives, step_count, pc, ctl, stack, run_input, outcome,
                first_run>>
hashVars   == <<h_in, h_out>>
scoreVars  == <<score_in, score_out>>
loopVars   == <<loop>>
vars       == <<cand, verdicts, last_call, trial, custom_primitives, step_count, pc, ctl,
                stack, run_input, outcome, h_in, h_out, score_in,
                score_out, loop, first_run>>

None == [t |-> "none"]

\* CPython's default sys.getrecursionlimit().  The validators (visit ->
\* generic_visit -> visit ...) and the interpreter (_eval -> _eval_app -> _eval ...)
\* recurse on the host stack, and a call that would make the stack deeper than
\* this raises RecursionError.
RecursionLimit == 1000

(***************************************************************************)
(* Strings                                                                 *)
(***************************************************************************)
Letters == {"a","b","c","d","e","f","g","h","i","j","k","l","m","n","o","p","q","r",
            "s","t","u","v","w","x","y","z","A","B","C","D","E","F","G","H","I","J",
            "K","L","M","N","O","P","Q","R","S","T","U","V","W","X","Y","Z"}
Digits  == {"0","1","2","3","4","5","6","7","8","9"}

\* str.startswith("__")
StartsWithDunder(s) == Len(s) >= 2 /\ s[1] = "_" /\ s[2] = "_"

\* str.isidentifier() on ASCII text
IsIdentifier(s) ==
    /\ Len(s) >= 1
    /\ s[1] \in Letters \cup {"_"}
    /\ \A i \in 2..Len(s) : s[i] \in Letters \cup Digits \cup {"_"}

DigitChar(d) == CASE d = 0 -> "0" [] d = 1 -> "1" [] d = 2 -> "2" [] d = 3 -> "3"
                  [] d = 4 -> "4" [] d = 5 -> "5" [] d = 6 -> "6" [] d = 7 -> "7"
                  [] d = 8 -> "8" [] d = 9 -> "9"

RECURSIVE NatStr(_)
NatStr(n) == IF n < 10 THEN <<DigitChar(n)>>
             ELSE NatStr(n \div 10) \o <<DigitChar(n % 10)>>

\* str(n) of a Python int
IntStr(n) == IF n < 0 THEN <<"-">> \o NatStr(0 - n) ELSE NatStr(n)

\* max() of a sequence of naturals, by halving the index range
RECURSIVE MaxRange(_, _, _)
MaxRange(s, lo, hi) ==
    IF lo > hi THEN 0
    ELSE IF lo = hi THEN s[lo]
    ELSE LET mid == (lo + hi) \div 2
             a == MaxRange(s, lo, mid)
             b == MaxRange(s, mid + 1, hi)
         IN IF a > b THEN a ELSE b
MaxSeq(s) == MaxRange(s, 1, Len(s))

(***************************************************************************)
(* Syntax trees (what ast.parse returns).  A tree is the sequence of its   *)
(* nodes in pre-order, which is the order in which NodeVisitor.visit and   *)
(* generic_visit reach them; a node is its class name, its identifier      *)
(* field (Name.id, Attribute.attr, FunctionDef.name) and its depth, the    *)
(* root having depth 1.  The children of a node follow it in _fields       *)
(* order, so the callee of a Call and the value of a Subscript are the     *)
(* node right after it.                                                    *)
(***************************************************************************)
RECURSIVE ConcatRange(_, _, _)
ConcatRange(ss, lo, hi) ==
    IF lo > hi THEN <<>>
    ELSE IF lo = hi THEN ss[lo]
    ELSE LET mid == (lo + hi) \div 2
         IN ConcatRange(ss, lo, mid) \o ConcatRange(ss, mid + 1, hi)

Deeper(t) == [i \in 1..Len(t) |-> [t[i] EXCEPT !.depth = @ + 1]]
Tree(kind, id, kids) ==
    <<[kind |-> kind, id |-> id, depth |-> 1]>>
    \o ConcatRange([i \in 1..Len(kids) |-> Deeper(kids[i])], 1, Len(kids))
Node(kind, kids) == Tree(kind, <<>>, kids)

Load  == Node("Load", <<>>)
Store == Node("Store", <<>>)
Name(id)             == Tree("Name", id, <<Load>>)
NameStore(id)        == Tree("Name", id, <<Store>>)
Constant             == Node("Constant", <<>>)
Attribute(value, a)  == Tree("Attribute", a, <<value, Load>>)
Call(func, args)     == Node("Call", <<func>> \o args)
Subscript(value, sl) == Node("Subscript", <<value, sl, Load>>)
BinOp(l, r)          == Node("BinOp", <<l, Node("Add", <<>>), r>>)
BoolOp(l, r)         == Node("BoolOp", <<Node("And", <<>>), l, r>>)
List(elts)           == Node("List", elts \o <<Load>>)
Lambda(body)         == Node("Lambda", <<Node("arguments", <<>>), body>>)
ExprStmt(e)          == Node("Expr", <<e>>)
Return(e)            == Node("Return", <<e>>)
Assign(id, e)        == Node("Assign", <<NameStore(id), e>>)
While(test, body)    == Node("While", <<test>> \o body)
For(target, iter, body) == Node("For", <<target, iter>> \o body)
Break                == Node("Break", <<>>)
Continue             == Node("Continue", <<>>)
Import               == Node("Import", <<Node("alias", <<>>)>>)
FunctionDef(nm, body) == Tree("FunctionDef", nm, <<Node("arguments", <<>>)>> \o body)

\* The abstract base class of a node class in Python's ast module.
SuperClass(kind) ==
    CASE kind \in {"Add", "Sub", "Mult"}          -> "operator"
      [] kind \in {"And", "Or"}                   -> "boolop"
      [] kind \in {"Not", "USub"}                 -> "unaryop"
      [] kind \in {"Eq", "Lt", "Gt"}              -> "cmpop"
      [] kind \in {"Load", "Store", "Del"}        -> "expr_context"
      [] kind \in {"Module", "Expression"}        -> "mod"
      [] kind \in {"FunctionDef", "Return", "Assign", "AnnAssign", "AugAssign", "Expr",
                   "If", "While", "For", "Break", "Continue", "Import", "Pass"} -> "stmt"
      [] kind \in {"Name", "Constant", "BinOp", "UnaryOp", "BoolOp", "Compare", "Call",
                   "List", "Tuple", "Dict", "Set", "ListComp", "SetComp", "DictComp",
                   "GeneratorExp", "Attribute", "Subscript", "Slice", "IfExp",
                   "Lambda"}                      -> "expr"
      [] OTHER                                    -> "AST"

\* isinstance(node, ALLOWED).  IsInstanceTooBroad is the variant in which the
\* tuple also holds the base class ast.expr.
IsInstanceTooBroad(kind, allowed) ==
    kind \in allowed \/ SuperClass(kind) \in allowed \cup {"expr"}
IsInstance(kind, allowed) == kind \in allowed \/ SuperClass(kind) \in allowed

s_open    == <<"o","p","e","n">>
s_eval    == <<"e","v","a","l">>
s_exec    == <<"e","x","e","c">>
s_compile == <<"c","o","m","p","i","l","e">>
s_import  == <<"_","_","i","m","p","o","r","t","_","_">>
s_globals == <<"g","l","o","b","a","l","s">>
s_locals  == <<"l","o","c","a","l","s">>
s_abs == <<"a","b","s">>
s_min == <<"m","i","n">>
s_max == <<"m","a","x">>
s_float == <<"f","l","o","a","t">>
s_int == <<"i","n","t">>
s_len == <<"l","e","n">>
s_range == <<"r","a","n","g","e">>
s_list == <<"l","i","s","t">>
s_sorted == <<"s","o","r","t","e","d">>
s_reversed == <<"r","e","v","e","r","s","e","d">>
s_sum == <<"s","u","m">>

SAFE_BUILTINS == {s_abs, s_min, s_max, s_float, s_int, s_len, s_range, s_list,
                  s_sorted, s_reversed, s_sum}
SAFE_VARS == {<<"x">>} \cup {<<"v", DigitChar(i)>> : i \in 0..9}
FORBIDDEN_NAMES == {s_open, s_eval, s_exec, s_compile, s_import, s_globals, s_locals}

\* _forbidden_name; forbidden_name_no_prefix is the variant without the
\* startswith("__") test.
forbidden_name_no_prefix(name) == name \in FORBIDDEN_NAMES
forbidden_name(name) == StartsWithDunder(name) \/ name \in FORBIDDEN_NAMES

COMMON_ALLOWED ==
    {"Module", "FunctionDef", "arguments", "arg", "Return", "Assign", "AnnAssign",
     "AugAssign", "Name", "Constant", "Expr", "If", "BinOp", "UnaryOp", "Compare",
     "Call", "List", "Tuple", "Dict", "Set", "ListComp", "SetComp", "DictComp",
     "GeneratorExp", "Attribute", "Subscript", "Slice", "Load", "Store", "IfExp",
     "operator", "boolop", "unaryop", "cmpop"}

\* _allowed_nodes: base + extra, plus ast.Index where the ast module has it
allowed_nodes(base, extra) == base \cup extra \cup {"Index"}

CodeValidator_ALLOWED == allowed_nodes(COMMON_ALLOWED, {"While", "For", "Break", "Continue"})
ProgramValidator_ALLOWED == allowed_nodes(COMMON_ALLOWED, {})
AlgoProgramValidator_ALLOWED == allowed_nodes(COMMON_ALLOWED, {"For", "While", "BoolOp"})
ExprValidator_ALLOWED ==
    allowed_nodes({"Expression", "BinOp", "UnaryOp", "BoolOp", "Compare", "IfExp", "Call",
                   "Attribute", "Name", "Load", "Constant", "List", "Tuple", "Dict", "Set",
                   "ListComp", "SetComp", "DictComp", "GeneratorExp", "Subscript", "Slice",
                   "operator", "unaryop", "boolop", "cmpop"}, {})

Policies == {"code", "program", "algo", "expr"}
ALLOWED(policy) == CASE policy = "code"    -> CodeValidator_ALLOWED
                     [] policy = "program" -> ProgramValidator_ALLOWED
                     [] policy = "algo"    -> AlgoProgramValidator_ALLOWED
                     [] policy = "expr"    -> ExprValidator_ALLOWED

\* What a visit method assigns to (self.ok, self.err) on a violation: ok becomes
\* False and err the message, here the format string and what is formatted into it.
Err(fmt, arg) == [fmt |-> fmt, arg |-> arg]

\* The check BaseValidator.visit / ExprValidator.visit makes on node i of the tree
\* before generic_visit: the message assigned, or None when the node passes.
\* allowed_names is consulted by the expr policy only.
node_check(policy, allowed_names, tree, i) ==
    LET node == tree[i] IN
    IF ~IsInstance(node.kind, ALLOWED(policy))
    THEN Err(IF policy = "expr" THEN "Forbidden expr node: {}" ELSE "Forbidden: {}",
             node.kind)
    ELSE IF node.kind = "Name" /\ forbidden_name(node.id)
    THEN Err("Forbidden name: {}", node.id)
    ELSE IF policy = "expr" /\ node.kind = "Name" /\ node.id \notin allowed_names
    THEN Err("Unknown name: {}", node.id)
    ELSE IF node.kind = "Attribute" /\ StartsWithDunder(node.id)
    THEN Err("Forbidden attribute: {}", node.id)
    ELSE IF node.kind = "Call" /\ tree[i + 1].kind \notin {"Name", "Attribute"}
    THEN Err("Forbidden call form (non-Name/Attribute callee)", <<>>)
    ELSE IF /\ node.kind = "Subscript"
            /\ tree[i + 1].kind = "Name"
            /\ tree[i + 1].id \in SAFE_BUILTINS
    THEN Err("Forbidden subscript on builtin", <<>>)
    ELSE None

\* A validator object after __init__: ok is True and err None.  `skip` is the
\* position of the traversal: the depth of the node whose visit returned early,
\* so that the nodes below it are not visited, or 0.  `top` is the number of
\* host stack levels the traversal has needed so far above the frame of the
\* validate_* function that started it.
ValidatorInit == [ok |-> TRUE, err |-> None, skip |-> 0, top |-> 0]

\* Host stack levels the visit of a node at depth d (the root has depth 1)
\* needs: visit itself runs 2d - 1 levels above the validate_* frame; a visit
\* that returns early makes C calls only (isinstance), one level up; a visit of
\* a Name calls _forbidden_name, whose own call is a further level, and a visit
\* that passes calls generic_visit, which runs ast.iter_fields.
visit_levels(kind, d, early) == IF early /\ kind # "Name" THEN 2 * d ELSE 2 * d + 1

\* visit(tree[i]) on validator state v, when the traversal reaches position i:
\* nothing below a node that returned early is visited; a node that fails its
\* check sets (ok, err) and returns; any other node goes on to its children.
visit(policy, allowed_names, tree, i, v) ==
    IF v.skip > 0 /\ tree[i].depth > v.skip THEN v
    ELSE LET own == node_check(policy, allowed_names, tree, i)
             levels == visit_levels(tree[i].kind, tree[i].depth, own # None)
             top == IF levels > v.top THEN levels ELSE v.top
         IN IF own # None
            THEN [ok |-> FALSE, err |-> own, skip |-> tree[i].depth, top |-> top]
            ELSE [v EXCEPT !.skip = 0, !.top = top]

\* generic_visit down the whole tree: positions lo..hi in pre-order
RECURSIVE generic_visit(_, _, _, _, _, _)
generic_visit(policy, allowed_names, tree, lo, hi, v) ==
    IF lo > hi THEN v
    ELSE IF lo = hi THEN visit(policy, allowed_names, tree, lo, v)
    ELSE LET mid == (lo + hi) \div 2
             w == generic_visit(policy, allowed_names, tree, lo, mid, v)
         IN \* (the test only forces w to be computed before the right half)
            IF w.skip >= 0 THEN generic_visit(policy, allowed_names, tree, mid + 1, hi, w)
            ELSE w

\* v = Validator(); v.visit(tree)
Visited(policy, allowed_names, tree) ==
    generic_visit(policy, allowed_names, tree, 1, Len(tree), ValidatorInit)

(***************************************************************************)
(* Candidate texts and ast.parse.  A candidate text is represented by what *)
(* the parser makes of it: a statement sequence, a single expression, or   *)
(* text that is no Python at all.                                          *)
(***************************************************************************)
StmtsText(body) == [form |-> "stmts", body |-> body]
ExprText(e)     == [form |-> "expr", body |-> <<e>>]
GarbageText     == [form |-> "garbage", body |-> <<>>]

SyntaxError == [fmt |-> "invalid syntax", arg |-> <<>>]
\* str(e) of the RecursionError the traversal raises (CPython may append where it
\* was raised: " while calling a Python object", " in __instancecheck__")
RecursionReason == [fmt |-> "maximum recursion depth exceeded", arg |-> <<>>]
EmptyReason == [fmt |-> "", arg |-> <<>>]

\* ast.parse(code) (mode "exec") and ast.parse(expr, mode="eval")
ast_parse(text, mode) ==
    IF text.form = "garbage" THEN [ok |-> FALSE, err |-> SyntaxError]
    ELSE IF mode = "exec"
    THEN [ok |-> TRUE,
          tree |-> Node("Module", IF text.form = "expr" THEN <<ExprStmt(text.body[1])>>
                                  ELSE text.body)]
    ELSE IF text.form = "expr"
    THEN [ok |-> TRUE, tree |-> Node("Expression", text.body)]
    ELSE [ok |-> FALSE, err |-> SyntaxError]

\* sum(1 for _ in ast.walk(tree))
NodeCount(tree) == Len(tree)

\* sum(1 for n in ast.walk(tree) if isinstance(n, <class>))
CountKind(tree, kind) == Cardinality({i \in 1..Len(tree) : tree[i].kind = kind})

\* {n.id for n in ast.walk(tree) if isinstance(n, ast.Name)}
NameIds(tree) == {tree[i].id : i \in {j \in 1..Len(tree) : tree[j].kind = "Name"}}

\* ast_depth: 0 when the text does not parse, else the longest root-to-leaf path
TreeDepth(tree) == MaxSeq([i \in 1..Len(tree) |-> tree[i].depth])
ast_depth(text) == LET p == ast_parse(text, "exec") IN IF p.ok THEN TreeDepth(p.tree) ELSE 0

program_max_nodes  == 200
program_max_depth  == 20
program_max_locals == 16

program_limits_ok(text) ==
    LET p == ast_parse(text, "exec") IN
    IF ~p.ok THEN FALSE
    ELSE /\ NodeCount(p.tree) <= program_max_nodes
         /\ ast_depth(text) <= program_max_depth
         /\ Cardinality(NameIds(p.tree)) <= program_max_locals

algo_max_nodes      == 420
algo_max_depth      == 32
algo_max_funcs      == 8
algo_max_locals     == 48
algo_max_consts     == 128
algo_max_subscripts == 64

algo_program_limits_ok(text) ==
    LET p == ast_parse(text, "exec") IN
    IF ~p.ok THEN FALSE
    ELSE /\ NodeCount(p.tree) <= algo_max_nodes
         /\ ast_depth(text) <= algo_max_depth
         /\ CountKind(p.tree, "FunctionDef") <= algo_max_funcs
         /\ Cardinality(NameIds(p.tree)) <= algo_max_locals
         /\ CountKind(p.tree, "Constant") <= algo_max_consts
         /\ CountKind(p.tree, "Subscript") <= algo_max_subscripts

\* the (v.ok, v.err or "") a validate_* function returns
Verdict(v) == [ok |-> v.ok, reason |-> IF v.err = None THEN EmptyReason ELSE v.err]
Rejected(reason) == [ok |-> FALSE, reason |-> reason]

\* v.visit(tree) inside the try block of a validate_* function whose own frame
\* is the frames-th on the host stack: the traversal raises RecursionError when
\* it needs a level beyond the recursion limit
Overflows(v, frames) == frames + v.top > RecursionLimit

\* The validate_* functions.  `frames` is the depth of the host stack at the call
\* (the function's own frame included): it is the caller's, not the candidate's.
validate_code(text, frames) ==
    LET p == ast_parse(text, "exec") IN
    IF ~p.ok THEN Rejected(p.err)
    ELSE LET v == Visited("code", {}, p.tree) IN
         IF Overflows(v, frames) THEN Rejected(RecursionReason) ELSE Verdict(v)

validate_program(text, frames) ==
    LET p == ast_parse(text, "exec") IN
    IF ~p.ok THEN Rejected(p.err)
    ELSE LET v == Visited("program", {}, p.tree) IN
         IF Overflows(v, frames) THEN Rejected(RecursionReason) ELSE Verdict(v)

\* variant of validate_algo_program that returns right after the traversal
validate_algo_program_no_limits(text, frames) ==
    LET p == ast_parse(text, "exec") IN
    IF ~p.ok THEN Rejected(p.err)
    ELSE LET v == Visited("algo", {}, p.tree) IN
         IF Overflows(v, frames) THEN Rejected(RecursionReason) ELSE Verdict(v)

validate_algo_program(text, frames) ==
    LET p == ast_parse(text, "exec") IN
    IF ~p.ok THEN Rejected(p.err)
    ELSE LET v == Visited("algo", {}, p.tree) IN
         IF Overflows(v, frames) THEN Rejected(RecursionReason)
         ELSE IF ~v.ok THEN Verdict(v)
         ELSE IF ~algo_program_limits_ok(text)
         THEN Rejected([fmt |-> "algo_program_limits", arg |-> <<>>])
         ELSE [ok |-> TRUE, reason |-> EmptyReason]

\* validate_expr with the default safe_builtins, safe_vars and extra
validate_expr(text, safe_funcs, frames) ==
    LET allowed == safe_funcs \cup SAFE_BUILTINS \cup SAFE_VARS
        p == ast_parse(text, "eval")
    IN IF ~p.ok THEN Rejected(p.err)
       ELSE LET v == Visited("expr", allowed, p.tree) IN
            IF Overflows(v, frames) THEN Rejected(RecursionReason) ELSE Verdict(v)

\* safe_funcs as the callers pass it (tests/test_validators.py: {"sin": ...})
safe_funcs_arg == {<<"s","i","n">>}

(***************************************************************************)
(* Candidates handed to the validators: every single-statement program and *)
(* every single expression over a small vocabulary (benign names, a        *)
(* forbidden identifier, a "__" name, a builtin, a literal, a lambda), and *)
(* candidates sized at and just above each structural ceiling.             *)
(***************************************************************************)
Slack == 1

s_x   == <<"x">>
s_y   == <<"y">>
s_dd  == <<"_","_","d">>
s_f   == <<"f">>

Atoms == {Name(s_x), Name(s_y), Name(s_open), Name(s_dd), Name(s_len), Constant,
          Lambda(Constant)}

Exprs1 ==
    Atoms
    \cup {Call(a, <<b>>) : a \in Atoms, b \in Atoms}
    \cup {Attribute(a, at) : a \in Atoms, at \in {s_y, s_dd}}
    \cup {Subscript(a, b) : a \in Atoms, b \in Atoms}
    \cup {BoolOp(a, b) : a \in Atoms, b \in Atoms}
    \cup {BinOp(a, b) : a \in Atoms, b \in Atoms}

Stmts1 ==
    {ExprStmt(e) : e \in Exprs1}
    \cup {Return(e) : e \in Exprs1}
    \cup {Assign(s_x, e) : e \in Exprs1}
    \cup {While(e, <<ExprStmt(Constant)>>) : e \in Exprs1}
    \cup {FunctionDef(s_f, <<Return(e)>>) : e \in Exprs1}
    \cup {Import, Node("Pass", <<>>)}

SmallCandidates ==
    {StmtsText(<<st>>) : st \in Stmts1} \cup {ExprText(e) : e \in Exprs1} \cup {GarbageText}

\* [[...[]...]], k brackets deep
NestedList(k) == [i \in 1..(2 * k) |->
                    IF i <= k THEN [kind |-> "List", id |-> <<>>, depth |-> i]
                    ELSE [kind |-> "Load", id |-> <<>>, depth |-> 2 * k + 2 - i]]

ManyFuncs(k)  == StmtsText([i \in 1..k |-> FunctionDef(<<"f">> \o NatStr(i),
                                                       <<Node("Return", <<>>)>>)])
DeepList(d)   == ExprText(NestedList(d - 3))
ManyNames(k)  == ExprText(List([i \in 1..k |-> Name(<<"n">> \o NatStr(i))]))
ManyConsts(k) == ExprText(List([i \in 1..k |-> Constant]))
ManySubs(k)   == ExprText(List([i \in 1..k |-> Subscript(Name(s_x), Constant)]))
ManyNodes(n)  == ExprText(List([i \in 1..((n - 4) \div 2) |-> List(<<>>)]
                               \o (IF n % 2 = 1 THEN <<Constant>> ELSE <<>>)))

StressCandidates ==
    UNION {{ManyFuncs(algo_max_funcs + d), DeepList(algo_max_depth + d),
            ManyNames(algo_max_locals + d), ManyConsts(algo_max_consts + d),
            ManySubs(algo_max_subscripts + d), ManyNodes(algo_max_nodes + d),
            DeepList(program_max_depth + d), ManyNames(program_max_locals + d),
            ManyNodes(program_max_nodes + d)} : d \in 0..Slack}

\* x + x + ... + x with m additions: the BinOp nodes nest to the left
SumChain(m) ==
    [i \in 1..(4 * m + 2) |->
        IF i <= m THEN [kind |-> "BinOp", id |-> <<>>, depth |-> i]
        ELSE IF i = m + 1 THEN [kind |-> "Name", id |-> s_x, depth |-> m + 1]
        ELSE IF i = m + 2 THEN [kind |-> "Load", id |-> <<>>, depth |-> m + 2]
        ELSE LET j == (i - m - 3) \div 3      \* 0 for the innermost BinOp
                 d == m - j + 1               \* depth of that BinOp's children
             IN CASE (i - m - 3) % 3 = 0 -> [kind |-> "Add", id |-> <<>>, depth |-> d]
                  [] (i - m - 3) % 3 = 1 -> [kind |-> "Name", id |-> s_x, depth |-> d]
                  [] (i - m - 3) % 3 = 2 -> [kind |-> "Load", id |-> <<>>, depth |-> d + 1]]

\* Loop statements, and candidates that hold one: alone, inside a function, and
\* before or after a statement that is harmless, that breaks a rule, or that
\* nests deeply (brackets DeepNest deep, a sum of LongSum additions).
DeepNest == 25
LongSum  == 495
LoopStmts ==
    { While(Name(s_x), <<ExprStmt(Constant)>>),
      While(Name(s_x), <<Break>>),
      For(NameStore(s_y), Name(s_x), <<Assign(s_x, Name(s_y))>>),
      For(NameStore(s_y), Name(s_x), <<Continue>>),
      Break, Continue }
LoopCompany ==
    { Constant, Name(s_open), Attribute(Name(s_x), s_y), Attribute(Name(s_x), s_dd),
      NestedList(DeepNest) }
LoopCandidates ==
    {StmtsText(<<l>>) : l \in LoopStmts}
    \cup {StmtsText(<<FunctionDef(s_f, <<l, Return(Name(s_x))>>)>>) : l \in LoopStmts}
    \cup {StmtsText(<<l, ExprStmt(e)>>) : l \in LoopStmts, e \in LoopCompany}
    \cup {StmtsText(<<ExprStmt(e), l>>) : l \in LoopStmts, e \in LoopCompany}
    \cup {StmtsText(<<While(Name(s_x), <<ExprStmt(Constant)>>),
                      ExprStmt(SumChain(LongSum))>>),
          StmtsText(<<ExprStmt(SumChain(LongSum)),
                      For(NameStore(s_y), Name(s_x), <<Assign(s_x, Name(s_y))>>)>>)}

Candidates == SmallCandidates \cup StressCandidates \cup LoopCandidates

NoVerdicts == [p \in Policies |-> None]

(***************************************************************************)
(* Validator operations                                                    *)
(***************************************************************************)
\* Each may be called again on the same candidate, from any depth of the
\* caller's stack.
ValidateCode(frames) ==
    /\ verdicts' = [verdicts EXCEPT !["code"] = validate_code(cand, frames)]
    /\ UNCHANGED <<cand, execVars, interpVars, hashVars, scoreVars, loopVars>>

ValidateProgram(frames) ==
    /\ verdicts' = [verdicts EXCEPT !["program"] = validate_program(cand, frames)]
    /\ UNCHANGED <<cand, execVars, interpVars, hashVars, scoreVars, loopVars>>

ValidateAlgoProgram(frames) ==
    /\ verdicts' = [verdicts EXCEPT !["algo"] = validate_algo_program(cand, frames)]
    /\ UNCHANGED <<cand, execVars, interpVars, hashVars, scoreVars, loopVars>>

ValidateExpr(frames) ==
    /\ verdicts' = [verdicts EXCEPT !["expr"] = validate_expr(cand, safe_funcs_arg, frames)]
    /\ UNCHANGED <<cand, execVars, interpVars, hashVars, scoreVars, loopVars>>

(***************************************************************************)
(* Initial states of the components                                        *)
(***************************************************************************)
ExecIdle   == last_call = None /\ trial = None
InterpIdle == /\ custom_primitives = <<>>
              /\ step_count = 0
              /\ pc = "idle"
              /\ ctl = None
              /\ stack = <<>>
              /\ run_input = None
              /\ outcome = None
              /\ first_run = None
HashIdle   == h_in = None /\ h_out = None
ScoreIdle  == score_in = None /\ score_out = None
LoopIdle   == loop = None

InitVal == /\ cand \in Candidates
           /\ verdicts = NoVerdicts
           /\ ExecIdle /\ InterpIdle /\ HashIdle /\ ScoreIdle /\ LoopIdle
\* host stack depths of the validate_* calls: a caller at module level, and a
\* caller deep in a recursion of its own
HostFrames == {2, 950}
NextVal ==
    \/ \E frames \in HostFrames : ValidateCode(frames)
    \/ \E frames \in HostFrames : ValidateProgram(frames)
    \/ \E frames \in HostFrames : ValidateAlgoProgram(frames)
    \/ \E frames \in HostFrames : ValidateExpr(frames)
SpecVal == InitVal /\ [][NextVal]_vars

(***************************************************************************)
(* DSL expressions and values (src/safe_interpreter.py).  A Python value   *)
(* carries its type: int, bool, list or None (the value universe of the    *)
(* DSL), or str (the names handed to register_primitive).                  *)
(***************************************************************************)
IntV(n)  == [t |-> "int", v |-> n]
BoolV(b) == [t |-> "bool", v |-> b]
ListV(s) == [t |-> "list", v |-> s]
StrV(s)  == [t |-> "str", v |-> s]

DSLVar(name)      == [tag |-> "DSLVar", name |-> name]
DSLVal(value)     == [tag |-> "DSLVal", value |-> value]
DSLApp(func, args) == [tag |-> "DSLApp", func |-> func, args |-> args]
\* an object that is none of the three (the bare base class)
DSLExprBase       == [tag |-> "DSLExpr"]

op_add == <<"a","d","d">>
op_sub == <<"s","u","b">>
op_mul == <<"m","u","l">>
op_div == <<"d","i","v">>
op_mod == <<"m","o","d">>
op_neg == <<"n","e","g">>
op_abs == <<"a","b","s">>
op_min == <<"m","i","n">>
op_max == <<"m","a","x">>
op_if_gt == <<"i","f","_","g","t">>
op_if_eq == <<"i","f","_","e","q">>
op_if_lt == <<"i","f","_","l","t">>
op_eq == <<"e","q">>
op_gt == <<"g","t">>
op_lt == <<"l","t">>
op_and_op == <<"a","n","d","_","o","p">>
op_or_op  == <<"o","r","_","o","p">>
op_not_op == <<"n","o","t","_","o","p">>
op_xor_op == <<"x","o","r","_","o","p">>
op_len == <<"l","e","n">>
op_first == <<"f","i","r","s","t">>
op_second == <<"s","e","c","o","n","d">>
op_last == <<"l","a","s","t">>
op_reverse == <<"r","e","v","e","r","s","e">>
op_concat == <<"c","o","n","c","a","t">>
op_slice_from == <<"s","l","i","c","e","_","f","r","o","m">>
op_slice_to == <<"s","l","i","c","e","_","t","o">>
op_index == <<"i","n","d","e","x">>
op_id == <<"i","d">>

\* list(ALLOWED_OPS.keys()): the built-in names in the order of the dict literal
ALLOWED_OPS_keys ==
    <<op_add, op_sub, op_mul, op_div, op_mod, op_neg, op_abs, op_min, op_max,
      op_if_gt, op_if_eq, op_if_lt, op_eq, op_gt, op_lt,
      op_and_op, op_or_op, op_not_op, op_xor_op,
      op_len, op_first, op_second, op_last, op_reverse, op_concat,
      op_slice_from, op_slice_to, op_index, op_id>>
ALLOWED_OPS == {ALLOWED_OPS_keys[i] : i \in 1..Len(ALLOWED_OPS_keys)}

\* number of parameters of each built-in lambda
Arity(op) ==
    CASE op \in {op_neg, op_abs, op_not_op, op_len, op_first, op_second, op_last,
                 op_reverse, op_id}                     -> 1
      [] op \in {op_if_gt, op_if_eq, op_if_lt}          -> 4
      [] OTHER                                          -> 2

IsNum(x) == x.t \in {"int", "bool"}
NumOf(x) == IF x.t = "bool" THEN (IF x.v THEN 1 ELSE 0) ELSE x.v

\* bool(x)
Truthy(x) == CASE x.t = "int"  -> x.v # 0
               [] x.t = "bool" -> x.v
               [] x.t = "list" -> Len(x.v) > 0
               [] OTHER        -> FALSE

\* a == b
RECURSIVE PyEq(_, _)
PyEq(a, b) ==
    IF IsNum(a) /\ IsNum(b) THEN NumOf(a) = NumOf(b)
    ELSE IF a.t = "list" /\ b.t = "list"
    THEN Len(a.v) = Len(b.v) /\ \A i \in 1..Len(a.v) : PyEq(a.v[i], b.v[i])
    ELSE a.t = "none" /\ b.t = "none"

\* a < b: "T", "F", or "TypeError" when the operands do not compare
RECURSIVE PyLt(_, _)
PyLt(a, b) ==
    IF IsNum(a) /\ IsNum(b) THEN (IF NumOf(a) < NumOf(b) THEN "T" ELSE "F")
    ELSE IF a.t = "list" /\ b.t = "list"
    THEN LET n == IF Len(a.v) < Len(b.v) THEN Len(a.v) ELSE Len(b.v)
             diff == {i \in 1..n : ~PyEq(a.v[i], b.v[i])}
         IN IF diff = {} THEN (IF Len(a.v) < Len(b.v) THEN "T" ELSE "F")
            ELSE LET k == CHOOSE i \in diff : \A j \in diff : i <= j
                 IN PyLt(a.v[k], b.v[k])
    ELSE "TypeError"

Value(x)  == [kind |-> "value", val |-> x]
TypeError == [kind |-> "TypeError"]
Compared(c, x, y) == IF c = "TypeError" THEN TypeError ELSE Value(IF c = "T" THEN x ELSE y)

\* integer division that rounds toward zero
TruncDiv(a, b) ==
    LET abs_a == IF a < 0 THEN 0 - a ELSE a
        abs_b == IF b < 0 THEN 0 - b ELSE b
    IN IF (a < 0) = (b < 0) THEN abs_a \div abs_b ELSE 0 - (abs_a \div abs_b)

\* a // b and a % b on Python ints, b # 0
FloorDiv(a, b) == IF b > 0 THEN a \div b ELSE (0 - a) \div (0 - b)
PyMod(a, b)    == a - b * FloorDiv(a, b)

Reverse(s) == [i \in 1..Len(s) |-> s[Len(s) + 1 - i]]
RECURSIVE Repeat(_, _)
Repeat(s, n) == IF n <= 0 THEN <<>> ELSE s \o Repeat(s, n - 1)

\* the start / stop of x[i:] and x[:i] as slice.indices() clamps it
Clamp(i, n) == IF i < 0 THEN (IF i + n < 0 THEN 0 ELSE i + n) ELSE (IF i > n THEN n ELSE i)

\* ALLOWED_OPS[op] applied to as many arguments as the lambda has parameters
Builtin(op, a) ==
    CASE op = op_add ->
            IF IsNum(a[1]) /\ IsNum(a[2]) THEN Value(IntV(NumOf(a[1]) + NumOf(a[2])))
            ELSE IF a[1].t = "list" /\ a[2].t = "list" THEN Value(ListV(a[1].v \o a[2].v))
            ELSE TypeError
      [] op = op_sub ->
            IF IsNum(a[1]) /\ IsNum(a[2]) THEN Value(IntV(NumOf(a[1]) - NumOf(a[2])))
            ELSE TypeError
      [] op = op_mul ->
            IF IsNum(a[1]) /\ IsNum(a[2]) THEN Value(IntV(NumOf(a[1]) * NumOf(a[2])))
            ELSE IF a[1].t = "list" /\ IsNum(a[2]) THEN Value(ListV(Repeat(a[1].v, NumOf(a[2]))))
            ELSE IF IsNum(a[1]) /\ a[2].t = "list" THEN Value(ListV(Repeat(a[2].v, NumOf(a[1]))))
            ELSE TypeError
      [] op = op_div ->
            IF IsNum(a[2]) /\ NumOf(a[2]) = 0 THEN Value(IntV(0))
            ELSE IF IsNum(a[1]) /\ IsNum(a[2])
            THEN Value(IntV(FloorDiv(NumOf(a[1]), NumOf(a[2]))))
            ELSE TypeError
      [] op = op_mod ->
            IF IsNum(a[2]) /\ NumOf(a[2]) = 0 THEN Value(IntV(0))
            ELSE IF IsNum(a[1]) /\ IsNum(a[2])
            THEN Value(IntV(PyMod(NumOf(a[1]), NumOf(a[2]))))
            ELSE TypeError
      [] op = op_neg -> IF IsNum(a[1]) THEN Value(IntV(0 - NumOf(a[1]))) ELSE TypeError
      [] op = op_abs ->
            IF IsNum(a[1])
            THEN Value(IntV(IF NumOf(a[1]) < 0 THEN 0 - NumOf(a[1]) ELSE NumOf(a[1])))
            ELSE TypeError
      [] op = op_min -> Compared(PyLt(a[2], a[1]), a[2], a[1])
      [] op = op_max -> Compared(PyLt(a[1], a[2]), a[2], a[1])
      [] op = op_if_gt -> Compared(PyLt(a[2], a[1]), a[3], a[4])
      [] op = op_if_eq -> Value(IF PyEq(a[1], a[2]) THEN a[3] ELSE a[4])
      [] op = op_if_lt -> Compared(PyLt(a[1], a[2]), a[3], a[4])
      [] op = op_eq -> Value(BoolV(PyEq(a[1], a[2])))
      [] op = op_gt -> Compared(PyLt(a[2], a[1]), BoolV(TRUE), BoolV(FALSE))
      [] op = op_lt -> Compared(PyLt(a[1], a[2]), BoolV(TRUE), BoolV(FALSE))
      [] op = op_and_op -> Value(IF Truthy(a[1]) THEN a[2] ELSE a[1])
      [] op = op_or_op  -> Value(IF Truthy(a[1]) THEN a[1] ELSE a[2])
      [] op = op_not_op -> Value(BoolV(~Truthy(a[1])))
      [] op = op_xor_op -> Value(BoolV(~PyEq(a[1], a[2])))
      [] op = op_len -> Value(IntV(IF a[1].t = "list" THEN Len(a[1].v) ELSE 0))
      [] op = op_first ->
            IF ~Truthy(a[1]) THEN Value(None)
            ELSE IF a[1].t = "list" THEN Value(a[1].v[1])
            ELSE TypeError
      [] op = op_second ->
            IF a[1].t = "list"
            THEN Value(IF Len(a[1].v) > 1 THEN a[1].v[2] ELSE None)
            ELSE TypeError
      [] op = op_last ->
            IF ~Truthy(a[1]) THEN Value(None)
            ELSE IF a[1].t = "list" THEN Value(a[1].v[Len(a[1].v)])
            ELSE TypeError
      [] op = op_reverse ->
            IF a[1].t = "list" THEN Value(ListV(Reverse(a[1].v)))
            ELSE Value(a[1])
      [] op = op_concat ->
            IF a[1].t # a[2].t THEN Value(a[1])
            ELSE IF IsNum(a[1]) THEN Value(IntV(NumOf(a[1]) + NumOf(a[2])))
            ELSE IF a[1].t = "list" THEN Value(ListV(a[1].v \o a[2].v))
            ELSE TypeError
      [] op = op_slice_from ->
            IF a[1].t # "list" THEN Value(a[1])
            ELSE IF a[2].t = "none" THEN Value(a[1])
            ELSE IF IsNum(a[2])
            THEN Value(ListV(SubSeq(a[1].v, Clamp(NumOf(a[2]), Len(a[1].v)) + 1, Len(a[1].v))))
            ELSE TypeError
      [] op = op_slice_to ->
            IF a[1].t # "list" THEN Value(a[1])
            ELSE IF a[2].t = "none" THEN Value(a[1])
            ELSE IF IsNum(a[2])
            THEN Value(ListV(SubSeq(a[1].v, 1, Clamp(NumOf(a[2]), Len(a[1].v)))))
            ELSE TypeError
      [] op = op_index ->
            IF a[1].t # "list" THEN Value(None)
            ELSE IF ~IsNum(a[2]) THEN TypeError
            ELSE IF 0 <= NumOf(a[2]) /\ NumOf(a[2]) < Len(a[1].v)
            THEN Value(a[1].v[NumOf(a[2]) + 1])
            ELSE Value(None)
      [] op = op_id -> Value(a[1])

\* the call of self.ALLOWED_OPS[func_name]: one with the wrong number of arguments
\* raises TypeError before the lambda's body runs
CallBuiltin(op, args) ==
    IF Len(args) # Arity(op) THEN TypeError ELSE Builtin(op, args)

(***************************************************************************)
(* SafeInterpreter.  _custom_primitives is a dict, which keeps its keys in *)
(* insertion order: a sequence of (name, expr) entries.  run() is followed *)
(* call by call: `ctl` is the pending call of _eval or the value being     *)
(* returned, `stack` the _eval_app activations that wait for it.           *)
(***************************************************************************)
MAX_STEPS == 10000

Exc(kind, msg) == [kind |-> kind, msg |-> msg]
RecursionError == Exc("RecursionError", "maximum recursion depth exceeded")

PrimNames(cp) == {cp[i].name : i \in 1..Len(cp)}
PrimBody(cp, name) == cp[CHOOSE i \in 1..Len(cp) : cp[i].name = name].expr
\* a table in which an assignment to an existing key moves the key to the end
DictSetLast(cp, name, expr) ==
    Append(SelectSeq(cp, LAMBDA e : e.name # name), [name |-> name, expr |-> expr])

\* d[name] = expr: an existing key keeps its place, a new key goes last
DictSet(cp, name, expr) ==
    IF name \in PrimNames(cp)
    THEN [i \in 1..Len(cp) |-> IF cp[i].name = name THEN [name |-> name, expr |-> expr]
                                ELSE cp[i]]
    ELSE Append(cp, [name |-> name, expr |-> expr])
\* del d[name]
DictDel(cp, name) == SelectSeq(cp, LAMBDA e : e.name # name)

\* register_primitive without the isidentifier() test
register_primitive_any_string(cp, name, expr) ==
    IF name.t # "str"
    THEN [table |-> cp, exc |-> Exc("SecurityError", "Invalid primitive name: {}")]
    ELSE IF name.v \in ALLOWED_OPS
    THEN [table |-> cp, exc |-> Exc("SecurityError", "Cannot override built-in: {}")]
    ELSE [table |-> DictSet(cp, name.v, expr), exc |-> None]

\* register_primitive without the built-in test
register_primitive_shadowing(cp, name, expr) ==
    IF name.t # "str" \/ ~IsIdentifier(name.v)
    THEN [table |-> cp, exc |-> Exc("SecurityError", "Invalid primitive name: {}")]
    ELSE [table |-> DictSet(cp, name.v, expr), exc |-> None]

\* register_primitive(name, expr): the table afterwards and the exception raised
register_primitive(cp, name, expr) ==
    IF name.t # "str" \/ ~IsIdentifier(name.v)
    THEN [table |-> cp, exc |-> Exc("SecurityError", "Invalid primitive name: {}")]
    ELSE IF name.v \in ALLOWED_OPS
    THEN [table |-> cp, exc |-> Exc("SecurityError", "Cannot override built-in: {}")]
    ELSE [table |-> DictSet(cp, name.v, expr), exc |-> None]

\* an unregister_primitive that reports success whatever the table holds
unregister_primitive_always_true(cp, name) ==
    [table |-> SelectSeq(cp, LAMBDA e : e.name # name), ret |-> TRUE]

\* unregister_primitive(name): the table afterwards and the value returned
unregister_primitive(cp, name) ==
    IF name \in PrimNames(cp)
    THEN [table |-> DictDel(cp, name), ret |-> TRUE]
    ELSE [table |-> cp, ret |-> FALSE]

\* get_all_ops(): list(ALLOWED_OPS.keys()) + list(_custom_primitives.keys())
get_all_ops(cp) == ALLOWED_OPS_keys \o [i \in 1..Len(cp) |-> cp[i].name]

\* f'var_{i}'
VarName(i) == <<"v","a","r","_">> \o NatStr(i)

\* an env.copy() that hands back the dict it was called on
dict_alias(env) == [fresh |-> FALSE, d |-> env]

\* env.copy(): a new dict object with the bindings of env
dict_copy(env) == [fresh |-> TRUE, d |-> env]

\* d[f'var_{i}'] = val for each evaluated argument
BindArgs(d, vals) ==
    LET bound == {VarName(i - 1) : i \in 1..Len(vals)} IN
    [n \in DOMAIN d \cup bound |->
        IF n \in bound THEN vals[CHOOSE i \in 1..Len(vals) : VarName(i - 1) = n]
        ELSE d[n]]

\* new_env = env.copy(); new_env[f'var_{i}'] = val for each evaluated argument
NewEnv(env, vals) == BindArgs(dict_copy(env).d, vals)

\* the dict the caller handed to run(), after an application bound its arguments:
\* the assignments go to new_env, which is the caller's dict only if copy() did
\* not make a new object
caller_env_after(caller, vals) ==
    IF dict_copy(caller).fresh THEN caller ELSE BindArgs(caller, vals)

\* Python frames on the host stack: run(), and _eval + _eval_app for each
\* application under evaluation.
PyDepth(st) == 1 + 2 * Len(st)

\* what one step of the evaluation leaves: the step counter, the next thing to do,
\* the waiting applications, and the exception that left _eval (or None)
Going(sc, c, st) == [step_count |-> sc, ctl |-> c, stack |-> st, exc |-> None]
Raise(sc, e)     == [step_count |-> sc, ctl |-> None, stack |-> <<>>, exc |-> e]
CallOf(expr, env) == [m |-> "call", expr |-> expr, env |-> env]
RetOf(val)        == [m |-> "ret", val |-> val]

Frame(kind, expr, env, body) ==
    [kind |-> kind, func |-> expr.func, args |-> expr.args, env |-> env,
     vals |-> <<>>, body |-> body]
Top(st) == st[Len(st)]
Pop(st) == SubSeq(st, 1, Len(st) - 1)

\* an _eval_app whose and_op / or_op stop at a first argument that decides
eval_app_short_circuit(sc, st) ==
    LET f == Top(st) IN
    IF /\ Len(f.vals) = 1
       /\ \/ f.func = op_and_op /\ ~Truthy(f.vals[1])
          \/ f.func = op_or_op /\ Truthy(f.vals[1])
    THEN Going(sc, RetOf(f.vals[1]), Pop(st))
    ELSE IF Len(f.vals) < Len(f.args)
    THEN Going(sc, CallOf(f.args[Len(f.vals) + 1], f.env), st)
    ELSE IF f.kind = "builtin"
    THEN LET r == CallBuiltin(f.func, f.vals) IN
         IF r.kind = "TypeError"
         THEN Raise(sc, Exc("ExecutionError", "Arity mismatch for {}: {}"))
         ELSE Going(sc, RetOf(r.val), Pop(st))
    ELSE Going(sc, CallOf(f.body, NewEnv(f.env, f.vals)),
               [st EXCEPT ![Len(st)].kind = "body"])

\* _eval_app once the innermost application has the values of the arguments
\* evaluated so far: the next argument, or the application itself
eval_app_continue(sc, st) ==
    LET f == Top(st) IN
    IF Len(f.vals) < Len(f.args)
    THEN Going(sc, CallOf(f.args[Len(f.vals) + 1], f.env), st)
    ELSE IF f.kind = "builtin"
    THEN IF PyDepth(st) + 1 > RecursionLimit THEN Raise(sc, RecursionError)
         ELSE LET r == CallBuiltin(f.func, f.vals) IN
              IF r.kind = "TypeError"
              THEN Raise(sc, Exc("ExecutionError", "Arity mismatch for {}: {}"))
              ELSE Going(sc, RetOf(r.val), Pop(st))
    ELSE Going(sc, CallOf(f.body, NewEnv(f.env, f.vals)),
               [st EXCEPT ![Len(st)].kind = "body"])

\* _eval_app(expr, env), entered from _eval
eval_app(cp, sc, expr, env, st) ==
    IF expr.func \in ALLOWED_OPS
    THEN eval_app_continue(sc, Append(st, Frame("builtin", expr, env, None)))
    ELSE IF expr.func \in PrimNames(cp)
    THEN eval_app_continue(sc, Append(st, Frame("prim", expr, env, PrimBody(cp, expr.func))))
    ELSE Raise(sc, Exc("SecurityError", "Unknown function: {}"))

\* an _eval that returns the value of a literal before it counts the step
eval_call_free_literals(cp, sc, expr, env, st) ==
    IF PyDepth(st) + 1 > RecursionLimit THEN Raise(sc, RecursionError)
    ELSE IF expr.tag = "DSLVal" THEN Going(sc, RetOf(expr.value), st)
    ELSE IF sc + 1 > MAX_STEPS
    THEN Raise(sc + 1, Exc("ExecutionError", "Maximum execution steps exceeded"))
    ELSE IF expr.tag = "DSLVar"
    THEN IF expr.name \in DOMAIN env THEN Going(sc + 1, RetOf(env[expr.name]), st)
         ELSE Raise(sc + 1, Exc("ExecutionError", "Undefined variable: {}"))
    ELSE IF expr.tag = "DSLApp"
    THEN IF PyDepth(st) + 2 > RecursionLimit THEN Raise(sc + 1, RecursionError)
         ELSE eval_app(cp, sc + 1, expr, env, st)
    ELSE Raise(sc + 1, Exc("SecurityError", "Unknown expression type: {}"))

\* a call of _eval(expr, env)
eval_call(cp, sc, expr, env, st) ==
    IF PyDepth(st) + 1 > RecursionLimit THEN Raise(sc, RecursionError)
    ELSE IF sc + 1 > MAX_STEPS
    THEN Raise(sc + 1, Exc("ExecutionError", "Maximum execution steps exceeded"))
    ELSE IF expr.tag = "DSLVal" THEN Going(sc + 1, RetOf(expr.value), st)
    ELSE IF expr.tag = "DSLVar"
    THEN IF expr.name \in DOMAIN env THEN Going(sc + 1, RetOf(env[expr.name]), st)
         ELSE Raise(sc + 1, Exc("ExecutionError", "Undefined variable: {}"))
    ELSE IF expr.tag = "DSLApp"
    THEN IF PyDepth(st) + 2 > RecursionLimit THEN Raise(sc + 1, RecursionError)
         ELSE eval_app(cp, sc + 1, expr, env, st)
    ELSE Raise(sc + 1, Exc("SecurityError", "Unknown expression type: {}"))

\* a return of _eval with value val to the application that waits for it
eval_return(sc, val, st) ==
    IF Top(st).kind = "body" THEN Going(sc, RetOf(val), Pop(st))
    ELSE eval_app_continue(sc, [st EXCEPT ![Len(st)].vals = Append(@, val)])

\* run() with no except clause but the re-raise
run_except_reraise(e) == e

\* run() with a handler that reports every failure as ExecutionError
run_except_swallow(e) ==
    IF e.kind = "ExecutionError" THEN e ELSE Exc("ExecutionError", "Execution failed: {}")

\* the except clauses of run(): SecurityError and ExecutionError pass, anything
\* else becomes ExecutionError("Execution failed: ...")
run_except(e) ==
    IF e.kind \in {"SecurityError", "ExecutionError"} THEN e
    ELSE Exc("ExecutionError", "Execution failed: {}")

RunReturned(val) == [op |-> "run", kind |-> "value", msg |-> "", val |-> val, raised |-> None]
RunRaised(e) == [op |-> "run", kind |-> run_except(e).kind, msg |-> run_except(e).msg,
                 val |-> None, raised |-> e]

(***************************************************************************)
(* Interpreter operations                                                  *)
(***************************************************************************)
\* first_run is a record kept beside the interpreter, not a field of it: once
\* armed, it keeps the call, the table, the outcome and the final step counter
\* of the first run that completes, for later runs to be compared with.
Armed == [t |-> "armed"]
Recorded(o, sc) ==
    IF first_run = Armed
    THEN [t |-> "run", input |-> run_input, table |-> custom_primitives,
          outcome |-> o, steps |-> sc]
    ELSE first_run

\* a run() that goes on counting from where the run before it stopped
RunStartNoReset(expr, env) ==
    /\ pc = "idle"
    /\ pc' = "run"
    /\ ctl' = CallOf(expr, env)
    /\ stack' = <<>>
    /\ run_input' = [expr |-> expr, env |-> env]
    /\ outcome' = None
    /\ UNCHANGED <<custom_primitives, step_count, first_run, valVars, execVars, hashVars,
                   scoreVars, loopVars>>

RunStart(expr, env) ==
    /\ pc = "idle"
    /\ pc' = "run"
    /\ step_count' = 0
    /\ ctl' = CallOf(expr, env)
    /\ stack' = <<>>
    /\ run_input' = [expr |-> expr, env |-> env]
    /\ outcome' = None
    /\ UNCHANGED <<custom_primitives, first_run, valVars, execVars, hashVars, scoreVars,
                   loopVars>>

\* the step was the one in which _eval_app built new_env and called _eval on the
\* primitive's body
EntersBody(r) ==
    /\ r.exc = None
    /\ r.ctl.m = "call"
    /\ r.stack # <<>>
    /\ Top(r.stack).kind = "body"

Step(r) ==
    /\ step_count' = r.step_count
    /\ ctl' = r.ctl
    /\ stack' = r.stack
    /\ IF r.exc = None THEN UNCHANGED <<pc, outcome, first_run>>
       ELSE /\ pc' = "idle"
            /\ outcome' = RunRaised(r.exc)
            /\ first_run' = Recorded(RunRaised(r.exc), r.step_count)
    /\ run_input' = IF EntersBody(r)
                    THEN [run_input EXCEPT !.env = caller_env_after(@, Top(r.stack).vals)]
                    ELSE run_input
    /\ UNCHANGED <<custom_primitives, valVars, execVars, hashVars, scoreVars, loopVars>>

EvalCall ==
    /\ pc = "run"
    /\ ctl.m = "call"
    /\ Step(eval_call(custom_primitives, step_count, ctl.expr, ctl.env, stack))

EvalReturn ==
    /\ pc = "run"
    /\ ctl.m = "ret"
    /\ stack # <<>>
    /\ Step(eval_return(step_count, ctl.val, stack))

RunReturn ==
    /\ pc = "run"
    /\ ctl.m = "ret"
    /\ stack = <<>>
    /\ pc' = "idle"
    /\ ctl' = None
    /\ outcome' = RunReturned(ctl.val)
    /\ first_run' = Recorded(RunReturned(ctl.val), step_count)
    /\ UNCHANGED <<custom_primitives, step_count, stack, run_input, valVars, execVars,
                   hashVars, scoreVars, loopVars>>

RegisterPrimitive(name, expr) ==
    /\ pc = "idle"
    /\ LET r == register_primitive(custom_primitives, name, expr) IN
       /\ custom_primitives' = r.table
       /\ outcome' = [op |-> "register", name |-> name, expr |-> expr, exc |-> r.exc,
                      before |-> custom_primitives]
    /\ UNCHANGED <<step_count, pc, ctl, stack, run_input, first_run, valVars, execVars,
                   hashVars, scoreVars, loopVars>>

UnregisterPrimitive(name) ==
    /\ pc = "idle"
    /\ LET r == unregister_primitive(custom_primitives, name) IN
       /\ custom_primitives' = r.table
       /\ outcome' = [op |-> "unregister", name |-> name, ret |-> r.ret,
                      before |-> custom_primitives]
    /\ UNCHANGED <<step_count, pc, ctl, stack, run_input, first_run, valVars, execVars,
                   hashVars, scoreVars, loopVars>>

GetAllOps ==
    /\ pc = "idle"
    /\ outcome' = [op |-> "get_all_ops", ret |-> get_all_ops(custom_primitives)]
    /\ UNCHANGED <<custom_primitives, step_count, pc, ctl, stack, run_input, first_run,
                   valVars, execVars, hashVars, scoreVars, loopVars>>

(***************************************************************************)
(* Interpreter inputs                                                      *)
(***************************************************************************)
s_p   == <<"p">>
s_q   == <<"q">>
s_n   == <<"n">>
s_pow == <<"p","o","w">>
var_0 == VarName(0)
One   == DSLVal(IntV(1))

Inc         == DSLApp(op_add, <<DSLVar(var_0), One>>)
CallP       == DSLApp(s_p, <<DSLVar(var_0)>>)
CallQ       == DSLApp(s_q, <<DSLVar(var_0)>>)
CallPow     == DSLApp(s_pow, <<DSLVar(var_0)>>)
IncOfCallP  == DSLApp(op_add, <<CallP, One>>)

\* names handed to register_primitive: two identifiers, a built-in's name, a string
\* that starts with a digit, the empty string, and an int
RegNames == {StrV(s_p), StrV(s_q), StrV(op_add), StrV(<<"1","p">>), StrV(<<>>), IntV(1)}
\* bodies registered under each name (no primitive reaches itself)
RegBodies(name) == IF name = StrV(s_q) THEN {Inc, CallPow} ELSE {Inc, CallQ, CallPow}

RunEnvs == {<<>>, [k \in {s_n} |-> IntV(2)]}
RunExprs ==
    { One, DSLVar(s_n), DSLExprBase,
      DSLApp(s_p, <<One>>), DSLApp(s_q, <<DSLVar(s_n)>>),
      DSLApp(s_pow, <<DSLVar(s_n)>>),
      DSLApp(op_add, <<One, DSLApp(s_pow, <<>>)>>),
      DSLApp(op_add, <<DSLVar(s_n), DSLApp(s_p, <<One>>)>>),
      DSLApp(op_add, <<One>>),
      DSLApp(op_add, <<One, DSLVal(None)>>),
      DSLApp(op_neg, <<DSLExprBase>>),
      DSLApp(op_if_gt, <<DSLVar(s_n), One, DSLVal(ListV(<<IntV(1)>>)), DSLVal(BoolV(FALSE))>>) }

\* primitive tables in which p reaches itself: directly, through q, and under a
\* built-in
Entry(name, expr) == [name |-> name, expr |-> expr]
RecursiveTables ==
    { <<Entry(s_p, CallP)>>,
      <<Entry(s_p, CallQ), Entry(s_q, CallP)>>,
      <<Entry(s_p, IncOfCallP)>> }
BudgetRunExprs ==
    { One, DSLApp(s_p, <<One>>), DSLApp(op_add, <<One, DSLApp(s_p, <<One>>)>>),
      DSLApp(s_pow, <<One>>), DSLApp(op_neg, <<DSLVal(None)>>) }

ValIdle == cand = None /\ verdicts = NoVerdicts

InitInterp == ValIdle /\ ExecIdle /\ InterpIdle /\ HashIdle /\ ScoreIdle /\ LoopIdle
NextInterp ==
    \/ \E name \in RegNames : \E expr \in RegBodies(name) : RegisterPrimitive(name, expr)
    \/ \E name \in {s_p, s_q, op_add} : UnregisterPrimitive(name)
    \/ GetAllOps
    \/ \E expr \in RunExprs : \E env \in RunEnvs : RunStart(expr, env)
    \/ EvalCall
    \/ EvalReturn
    \/ RunReturn
SpecInterp == InitInterp /\ [][NextInterp]_vars

InitBudget ==
    /\ ValIdle /\ ExecIdle /\ HashIdle /\ ScoreIdle /\ LoopIdle
    /\ custom_primitives \in RecursiveTables
    /\ step_count = 0
    /\ pc = "idle"
    /\ ctl = None
    /\ stack = <<>>
    /\ run_input = None
    /\ outcome = None
    /\ first_run = None
NextBudget ==
    \/ \E expr \in BudgetRunExprs : RunStart(expr, <<>>)
    \/ EvalCall
    \/ EvalReturn
    \/ RunReturn
SpecBudget == InitBudget /\ [][NextBudget]_vars

\* arithmetic expressions with the right number of arguments over int literals
\* and the variable n, run with n bound and with n unbound
ArithOps1 == {op_neg, op_abs}
ArithOps2 == {op_add, op_sub, op_mul, op_div, op_mod, op_min, op_max}
ArithLiterals == {0 - 7, 0 - 2, 0, 1, 2, 7}
ArithAtoms == {DSLVal(IntV(i)) : i \in ArithLiterals} \cup {DSLVar(s_n)}
ArithExprs1 ==
    ArithAtoms
    \cup {DSLApp(op, <<x>>) : op \in ArithOps1, x \in ArithAtoms}
    \cup {DSLApp(op, <<x, y>>) : op \in ArithOps2, x \in ArithAtoms, y \in ArithAtoms}
ArithExprs ==
    ArithExprs1
    \cup {DSLApp(op, <<DSLApp(inner, <<DSLVar(s_n), DSLVal(IntV(2))>>), One>>) :
              op \in ArithOps2, inner \in ArithOps2}
    \cup {DSLApp(op, <<DSLVal(IntV(0 - 7)), DSLApp(inner, <<DSLVal(IntV(0 - 2))>>)>>) :
              op \in ArithOps2, inner \in ArithOps1}
ArithEnvs == {<<>>, [k \in {s_n} |-> IntV(5)]}

InitArith == ValIdle /\ ExecIdle /\ InterpIdle /\ HashIdle /\ ScoreIdle /\ LoopIdle
NextArith ==
    \/ \E expr \in ArithExprs : \E env \in ArithEnvs : RunStart(expr, env)
    \/ EvalCall
    \/ EvalReturn
    \/ RunReturn
SpecArith == InitArith /\ [][NextArith]_vars

\* applications of built-ins and of registered primitives to arguments that are
\* single _eval calls each: literals (truthy and falsy), a bound and an unbound
\* variable, an application of an unregistered name, and an object that is no
\* DSLVal, DSLVar or DSLApp
s_r  == <<"r">>
Zero == DSLVal(IntV(0))
UnknownApp == DSLApp(s_pow, <<>>)
Leaves  == {One, Zero, DSLVar(s_n), DSLVar(s_x), UnknownApp, DSLExprBase}
Leaves4 == {One, Zero, DSLVar(s_x), UnknownApp}
Apply1 == {DSLApp(op, <<a>>) : op \in {op_neg, s_p}, a \in Leaves}
Apply2 == {DSLApp(op, <<a, b>>) : op \in {op_and_op, op_or_op, op_add, s_p},
                                  a \in Leaves, b \in Leaves}
Apply3 == {DSLApp(op_add, <<a, b, c>>) : a \in Leaves4, b \in Leaves4, c \in Leaves4}
Apply4 == {DSLApp(op, <<a, b, c, d>>) : op \in {op_if_gt, op_if_eq, op_if_lt},
                                        a \in Leaves4, b \in Leaves4,
                                        c \in Leaves4, d \in Leaves4}
ApplyExprs == Apply1 \cup Apply2 \cup Apply3 \cup Apply4
ApplyEnv == [k \in {s_n} |-> IntV(2)]

\* primitives whose bodies read var_1: q reads it directly, r calls q with no
\* argument, p is the one-parameter increment
var_1 == VarName(1)
ApplyTable == <<Entry(s_p, Inc), Entry(s_q, DSLVar(var_1)), Entry(s_r, DSLApp(s_q, <<>>))>>
Lit(i) == DSLVal(IntV(i))
ScopeRuns ==
    { [expr |-> DSLApp(s_q, <<Lit(3)>>), env |-> <<>>],
      [expr |-> DSLApp(s_q, <<Lit(3), Lit(4)>>), env |-> <<>>],
      [expr |-> DSLApp(s_q, <<Lit(3)>>), env |-> [k \in {var_1} |-> IntV(9)]],
      [expr |-> DSLApp(s_r, <<Lit(4), Lit(5)>>), env |-> <<>>],
      [expr |-> DSLApp(s_r, <<Lit(4)>>), env |-> <<>>] }

\* the sequence built-ins on an int, a bool, a sequence or None, with an int index
SeqOps1 == {op_first, op_second, op_last, op_reverse, op_len}
SeqOps2 == {op_slice_from, op_slice_to, op_index}
SeqValues ==
    { IntV(0), IntV(5), BoolV(TRUE), BoolV(FALSE), None, ListV(<<>>), ListV(<<IntV(7)>>),
      ListV(<<IntV(7), IntV(8), IntV(9)>>) }
SeqIndexes == {0 - 4, 0 - 1, 0, 1, 2, 5}
SeqExprs ==
    {DSLApp(op, <<DSLVal(x)>>) : op \in SeqOps1, x \in SeqValues}
    \cup {DSLApp(op, <<DSLVal(x), Lit(i)>>) : op \in SeqOps2, x \in SeqValues,
                                              i \in SeqIndexes}

ApplyRuns ==
    {[expr |-> e, env |-> ApplyEnv] : e \in ApplyExprs}
    \cup ScopeRuns
    \cup {[expr |-> e, env |-> <<>>] : e \in SeqExprs}

InitApply ==
    /\ ValIdle /\ ExecIdle /\ HashIdle /\ ScoreIdle /\ LoopIdle
    /\ custom_primitives = ApplyTable
    /\ step_count = 0
    /\ pc = "idle"
    /\ ctl = None
    /\ stack = <<>>
    /\ run_input = None
    /\ outcome = None
    /\ first_run = None
NextApply ==
    \/ \E r \in ApplyRuns : RunStart(r.expr, r.env)
    \/ EvalCall
    \/ EvalReturn
    \/ RunReturn
SpecApply == InitApply /\ [][NextApply]_vars

\* A table in which evaluation is long but shallow: d0 is add(1, 1) and each
\* d<k> is add(d<k-1>(), d<k-1>()), so that a call of d<k> makes more than
\* twice the _eval calls a call of d<k-1> makes; and p, which calls itself.
Doublings == 11
DName(k) == <<"d">> \o NatStr(k)
DBody(k) == IF k = 0 THEN DSLApp(op_add, <<One, One>>)
            ELSE DSLApp(op_add, <<DSLApp(DName(k - 1), <<>>), DSLApp(DName(k - 1), <<>>)>>)
DoublingTable == [i \in 1..(Doublings + 1) |-> Entry(DName(i - 1), DBody(i - 1))]
                 \o <<Entry(s_p, CallP)>>
\* runs on it: one that passes MAX_STEPS, one that returns, one that ends in a
\* RecursionError, one that meets an unknown function, and a literal
RerunExprs ==
    { DSLApp(DName(Doublings), <<>>), DSLApp(DName(Doublings - 4), <<>>),
      DSLApp(s_p, <<One>>), DSLApp(s_pow, <<One>>), One }

InitRerun ==
    /\ ValIdle /\ ExecIdle /\ HashIdle /\ ScoreIdle /\ LoopIdle
    /\ custom_primitives = DoublingTable
    /\ step_count = 0
    /\ pc = "idle"
    /\ ctl = None
    /\ stack = <<>>
    /\ run_input = None
    /\ outcome = None
    /\ first_run = Armed
NextRerun ==
    \/ \E expr \in RerunExprs : RunStart(expr, <<>>)
    \/ EvalCall
    \/ EvalReturn
    \/ RunReturn
SpecRerun == InitRerun /\ [][NextRerun]_vars

\* Expressions over built-ins only, by node count: small ones that return,
\* a balanced tree of additions, and applications of add to so many literals
\* that the node count is MAX_STEPS, and MAX_STEPS + 1 (with and without an
\* unbound variable as first argument).
TreeHeight == 6
RECURSIVE SumTree(_)
SumTree(k) == IF k = 0 THEN One ELSE DSLApp(op_add, <<SumTree(k - 1), SumTree(k - 1)>>)
Wide(n, first) == DSLApp(op_add, [i \in 1..n |-> IF i = 1 THEN first ELSE One])
SizeExprs ==
    { One, DSLVar(s_n),
      DSLApp(op_neg, <<DSLApp(op_neg, <<DSLVar(s_n)>>)>>),
      DSLApp(op_if_gt, <<DSLVar(s_n), One, DSLVal(ListV(<<IntV(1)>>)), DSLVal(BoolV(FALSE))>>),
      DSLApp(op_and_op, <<DSLVal(BoolV(FALSE)), DSLApp(op_mul, <<DSLVar(s_n), One>>)>>),
      DSLApp(op_add, <<One, DSLVal(None)>>),
      SumTree(TreeHeight),
      Wide(MAX_STEPS - 1, One), Wide(MAX_STEPS, One), Wide(MAX_STEPS, DSLVar(s_y)) }

InitSize ==
    /\ ValIdle /\ ExecIdle /\ InterpIdle /\ HashIdle /\ ScoreIdle /\ LoopIdle
NextSize ==
    \/ \E expr \in SizeExprs : RunStart(expr, [k \in {s_n} |-> IntV(2)])
    \/ EvalCall
    \/ EvalReturn
    \/ RunReturn
SpecSize == InitSize /\ [][NextSize]_vars

(***************************************************************************)
(* SemanticHasher.  The key is a Python string, built character by         *)
(* character; var_map (a dict name -> index, filled in insertion order     *)
(* with len(var_map)) is the sequence of the names seen so far, the index  *)
(* of a name being its position less one.                                  *)
(***************************************************************************)
RECURSIVE Join(_, _)
Join(strs, sep) ==
    IF strs = <<>> THEN <<>>
    ELSE IF Len(strs) = 1 THEN strs[1]
    ELSE strs[1] \o sep \o Join(Tail(strs), sep)

\* str(value) / repr(value) of a DSL value
RECURSIVE PyStr(_)
PyStr(x) ==
    CASE x.t = "int"  -> IntStr(x.v)
      [] x.t = "bool" -> IF x.v THEN <<"T","r","u","e">> ELSE <<"F","a","l","s","e">>
      [] x.t = "none" -> <<"N","o","n","e">>
      [] x.t = "list" -> <<"[">> \o Join([i \in 1..Len(x.v) |-> PyStr(x.v[i])], <<",", " ">>)
                         \o <<"]">>

IndexOf(var_map, name) == (CHOOSE i \in 1..Len(var_map) : var_map[i] = name) - 1
InMap(var_map, name) == \E i \in 1..Len(var_map) : var_map[i] = name

\* _canonicalize that writes each variable under its own name
RECURSIVE canonicalize_named(_, _)
canonicalize_named(expr, var_map) ==
    IF expr.tag = "DSLVal"
    THEN [key |-> <<"V", "(">> \o PyStr(expr.value) \o <<")">>, var_map |-> var_map]
    ELSE IF expr.tag = "DSLVar"
    THEN [key |-> <<"X">> \o expr.name, var_map |-> var_map]
    ELSE IF expr.tag = "DSLApp"
    THEN [key |-> expr.func \o <<"(">>
                  \o Join([i \in 1..Len(expr.args) |->
                             canonicalize_named(expr.args[i], var_map).key], <<",">>)
                  \o <<")">>,
          var_map |-> var_map]
    ELSE [key |-> <<"?">>, var_map |-> var_map]

\* _canonicalize that hands each argument a copy of var_map
RECURSIVE canonicalize_copying(_, _)
canonicalize_copying(expr, var_map) ==
    IF expr.tag = "DSLVal"
    THEN [key |-> <<"V", "(">> \o PyStr(expr.value) \o <<")">>, var_map |-> var_map]
    ELSE IF expr.tag = "DSLVar"
    THEN LET m == IF InMap(var_map, expr.name) THEN var_map ELSE Append(var_map, expr.name)
         IN [key |-> <<"X">> \o NatStr(IndexOf(m, expr.name)), var_map |-> m]
    ELSE IF expr.tag = "DSLApp"
    THEN [key |-> expr.func \o <<"(">>
                  \o Join([i \in 1..Len(expr.args) |->
                             canonicalize_copying(expr.args[i], var_map).key], <<",">>)
                  \o <<")">>,
          var_map |-> var_map]
    ELSE [key |-> <<"?">>, var_map |-> var_map]

\* _canonicalize(expr, var_map): the key, and var_map as the call leaves it.  The
\* generator handed to ",".join canonicalizes the arguments one after the other,
\* each seeing the names the earlier ones added.
RECURSIVE canonicalize(_, _)
RECURSIVE canonicalize_args(_, _, _)
canonicalize_args(args, i, var_map) ==
    IF i > Len(args) THEN [keys |-> <<>>, var_map |-> var_map]
    ELSE LET head == canonicalize(args[i], var_map)
             rest == canonicalize_args(args, i + 1, head.var_map)
         IN [keys |-> <<head.key>> \o rest.keys, var_map |-> rest.var_map]
canonicalize(expr, var_map) ==
    IF expr.tag = "DSLVal"
    THEN [key |-> <<"V", "(">> \o PyStr(expr.value) \o <<")">>, var_map |-> var_map]
    ELSE IF expr.tag = "DSLVar"
    THEN LET m == IF InMap(var_map, expr.name) THEN var_map ELSE Append(var_map, expr.name)
         IN [key |-> <<"X">> \o NatStr(IndexOf(m, expr.name)), var_map |-> m]
    ELSE IF expr.tag = "DSLApp"
    THEN LET r == canonicalize_args(expr.args, 1, var_map)
         IN [key |-> expr.func \o <<"(">> \o Join(r.keys, <<",">>) \o <<")">>,
             var_map |-> r.var_map]
    ELSE [key |-> <<"?">>, var_map |-> var_map]

\* SemanticHasher.hash(expr)
hash(expr) == canonicalize(expr, <<>>).key

\* SemanticHasher.are_equivalent(expr1, expr2)
are_equivalent(expr1, expr2) == hash(expr1) = hash(expr2)

(***************************************************************************)
(* Hasher operation and inputs                                             *)
(***************************************************************************)
s_a == <<"a">>
s_b == <<"b">>
s_c == <<"c">>
HashVarNames == {s_a, s_b, s_c}
HashAtoms == {DSLVar(v) : v \in HashVarNames} \cup {One}
HashExprs1 == HashAtoms \cup {DSLApp(op_add, <<x, y>>) : x \in HashAtoms, y \in HashAtoms}
HashExprs ==
    HashExprs1
    \cup {DSLApp(op_add, <<x, y>>) : x \in HashExprs1 \ HashAtoms, y \in HashAtoms}
    \cup {DSLApp(op_neg, <<x>>) : x \in HashAtoms}
    \cup {DSLExprBase, DSLVal(ListV(<<IntV(1), BoolV(TRUE), None>>))}

\* hash both expressions, as are_equivalent does
Hash ==
    /\ h_out = None
    /\ h_out' = [keys |-> <<hash(h_in[1]), hash(h_in[2])>>,
                 equivalent |-> are_equivalent(h_in[1], h_in[2])]
    /\ UNCHANGED <<h_in, valVars, execVars, interpVars, scoreVars, loopVars>>

InitHash ==
    /\ ValIdle /\ ExecIdle /\ InterpIdle
    /\ ScoreIdle /\ LoopIdle
    /\ h_in \in HashExprs \X HashExprs
    /\ h_out = None
NextHash == Hash
SpecHash == InitHash /\ [][NextHash]_vars

\* Hashing two expressions and then running them, the first in one environment
\* and the second in another, on a table with a primitive whose body reads the
\* variable a and one whose body reads only its argument.
s_twice == <<"t","w","i","c","e">>
EquivTable ==
    <<Entry(s_p, DSLVar(s_a)),
      Entry(s_twice, DSLApp(op_add, <<DSLVar(var_0), DSLVar(var_0)>>))>>
EquivAtoms == {DSLVar(s_a), DSLVar(s_b), One}
EquivExprs ==
    EquivAtoms
    \cup {DSLApp(op_sub, <<x, y>>) : x \in EquivAtoms, y \in EquivAtoms}
    \cup {DSLApp(s_twice, <<x>>) : x \in EquivAtoms}
    \cup {DSLApp(op_add, <<x, DSLApp(s_p, <<>>)>>) : x \in EquivAtoms}
    \cup {DSLApp(s_p, <<>>)}
EquivEnvs ==
    UNION {[d -> {IntV(1), IntV(2)}] : d \in SUBSET {s_a, s_b}}

InitEquiv ==
    /\ ValIdle /\ ExecIdle /\ ScoreIdle /\ LoopIdle
    /\ h_in \in EquivExprs \X EquivExprs
    /\ h_out = None
    /\ custom_primitives = EquivTable
    /\ step_count = 0
    /\ pc = "idle"
    /\ ctl = None
    /\ stack = <<>>
    /\ run_input = None
    /\ outcome = None
    /\ first_run = Armed
\* run(e1, env1), once
RunFirst ==
    /\ first_run = Armed
    /\ \E env \in EquivEnvs : RunStart(h_in[1], env)
\* run(e2, env2), after the first run has completed
RunSecond ==
    /\ first_run # Armed
    /\ \E env \in EquivEnvs : RunStart(h_in[2], env)
NextEquiv ==
    \/ Hash
    \/ RunFirst
    \/ RunSecond
    \/ EvalCall
    \/ EvalReturn
    \/ RunReturn
SpecEquiv == InitEquiv /\ [][NextEquiv]_vars

(***************************************************************************)
(* Utility scorer (safe_interpreter.py, UtilityScorer)                     *)
(*                                                                         *)
(* A Python float that is the quotient of two small integers, or a short   *)
(* decimal literal, is the pair <<numerator, denominator>> with a positive *)
(* denominator.  Correctly rounded division is monotone, so comparing two  *)
(* such floats gives the same answer as comparing the exact quotients.     *)
(***************************************************************************)
Float(num, den) == <<num, den>>
FloatGE(a, b) == a[1] * b[2] >= b[1] * a[2]
FloatGT(a, b) == a[1] * b[2] > b[1] * a[2]

MIN_COMPRESSION_RATIO == Float(11, 10)
MIN_USAGE_COUNT == 3

\* UtilityScorer.compute_size: the node count of an expression (the sum over
\* the arguments is taken by halving the index range)
RECURSIVE compute_size(_), SumSizes(_, _, _)
compute_size(expr) ==
    IF expr.tag \in {"DSLVal", "DSLVar"} THEN 1
    ELSE IF expr.tag = "DSLApp" THEN 1 + SumSizes(expr.args, 1, Len(expr.args))
    ELSE 1
SumSizes(args, lo, hi) ==
    IF lo > hi THEN 0
    ELSE IF lo = hi THEN compute_size(args[lo])
    ELSE LET mid == (lo + hi) \div 2
         IN SumSizes(args, lo, mid) + SumSizes(args, mid + 1, hi)

compression_ratio(original_size, primitive_size) ==
    IF primitive_size <= 0 THEN Float(0, 1)
    ELSE Float(original_size, primitive_size + 1)

\* a scorer whose ratio threshold is exclusive
should_keep_exclusive(ratio, usage_count, is_unique) ==
    /\ is_unique
    /\ FloatGT(ratio, MIN_COMPRESSION_RATIO)
    /\ usage_count >= MIN_USAGE_COUNT

should_keep(ratio, usage_count, is_unique) ==
    /\ is_unique
    /\ FloatGE(ratio, MIN_COMPRESSION_RATIO)
    /\ usage_count >= MIN_USAGE_COUNT

MaxSize == 6
MaxUsage == 10
Ratios ==
    {compression_ratio(o, p) : o \in 0..MaxSize, p \in (0 - 1)..MaxSize}
    \cup {Float(n, 100) : n \in {105, 109, 110, 111, 120}}
UsageCounts == (0 - 1)..MaxUsage

ShouldKeep(ratio, usage_count, is_unique) ==
    /\ score_in' = [compression_ratio |-> ratio, usage_count |-> usage_count,
                    is_unique |-> is_unique]
    /\ score_out' = should_keep(ratio, usage_count, is_unique)
    /\ UNCHANGED <<valVars, execVars, interpVars, hashVars, loopVars>>

InitScore == ValIdle /\ ExecIdle /\ InterpIdle /\ HashIdle /\ ScoreIdle /\ LoopIdle
NextScore ==
    \E ratio \in Ratios : \E usage_count \in UsageCounts : \E is_unique \in BOOLEAN :
        ShouldKeep(ratio, usage_count, is_unique)
SpecScore == InitScore /\ [][NextScore]_vars

(***************************************************************************)
(* Watchdog execution paths (src/systemtest/execution.py,                  *)
(* src/rsi_watchdog_loop.py).  A candidate here also says whether its text *)
(* has more than one line: textwrap.dedent strips the wrapper's margin     *)
(* only when no interpolated piece has put a line at column 0.             *)
(***************************************************************************)
ExecText(text, multiline) ==
    [form |-> text.form, body |-> text.body, multiline |-> multiline]

s_lib      == <<"_","l","i","b">>
s_Manager  == <<"L","i","b","r","a","r","y","M","a","n","a","g","e","r">>
s_update   == <<"u","p","d","a","t","e">>
s_runtime  == <<"r","u","n","t","i","m","e","_","p","r","i","m","i","t","i","v","e","s">>
s_json     == <<"j","s","o","n">>
s_loads    == <<"l","o","a","d","s">>
s_payload  == <<"_","p","a","y","l","o","a","d">>
s_args     == <<"a","r","g","s">>
s_kwargs   == <<"k","w","a","r","g","s">>
s_result   == <<"r","e","s","u","l","t">>
s_solve    == <<"s","o","l","v","e">>
s_getcwd   == <<"g","e","t","c","w","d">>

\* _primitive_prelude(): an import, an assignment and globals().update(...)
primitive_prelude ==
    << Node("ImportFrom", <<Node("alias", <<>>)>>),
       Assign(s_lib, Call(Name(s_Manager), <<>>)),
       ExprStmt(Call(Attribute(Call(Name(s_globals), <<>>), s_update),
                     <<Attribute(Name(s_lib), s_runtime)>>)) >>

\* "import json" and "_payload = json.loads(<literal>)"
payload_header ==
    << Import, Assign(s_payload, Call(Attribute(Name(s_json), s_loads), <<Constant>>)) >>

\* the wrapper of run_candidate_with_watchdog: the prelude is always interpolated,
\* so a line sits at column 0 and the margin stays
run_candidate_wrapper(code) == GarbageText

\* the wrapper of make_watchdog_callable(code, func_name, inject_primitives)._call
callable_wrapper(code, func_name, inject_primitives) ==
    IF inject_primitives \/ code.multiline \/ code.form = "garbage" THEN GarbageText
    ELSE StmtsText(payload_header
                   \o (IF code.form = "expr" THEN <<ExprStmt(code.body[1])>> ELSE code.body)
                   \o <<Assign(s_result,
                               Call(Name(func_name),
                                    <<Node("Starred", <<Subscript(Name(s_payload), Constant),
                                                        Load>>),
                                      Node("keyword", <<Subscript(Name(s_payload),
                                                                  Constant)>>)>>))>>)

\* the wrapper of make_watchdog_expr_callable(expr, params, inject_primitives)._call
expr_callable_wrapper(expr, params, inject_primitives) ==
    IF inject_primitives \/ expr.multiline \/ expr.form # "expr" \/ Len(params) > 1
    THEN GarbageText
    ELSE StmtsText(payload_header
                   \o <<Assign(s_args, Subscript(Name(s_payload), Constant)),
                        Assign(s_kwargs, Subscript(Name(s_payload), Constant))>>
                   \o [i \in 1..Len(params) |->
                         Assign(params[i], Subscript(Name(s_args), Constant))]
                   \o <<Assign(s_result, expr.body[1])>>)

\* code.strip().startswith("def ")
starts_with_def(code) ==
    /\ code.form = "stmts"
    /\ code.body # <<>>
    /\ code.body[1][1].kind = "FunctionDef"

solve_call == Assign(s_result, Call(Name(s_solve), <<Constant>>))

\* the snippet evaluate_code_with_watchdog builds for one io pair
snippet(code) ==
    IF starts_with_def(code) THEN StmtsText(primitive_prelude \o code.body \o <<solve_call>>)
    ELSE IF code.form = "expr"
    THEN StmtsText(primitive_prelude
                   \o <<FunctionDef(s_solve, <<Return(code.body[1])>>)>>
                   \o <<solve_call>>)
    ELSE GarbageText

\* WatchdogExecutor.run_safe(text): what the boundary may answer.  A result is
\* the value the io pair expects, another value, or None.
\* A timeout answer carries no error message, an uncaught failure inside the
\* candidate carries its message.
Succeeded(result) == [success |-> TRUE, killed |-> FALSE, result |-> result,
                      error |-> "absent"]
Killed            == [success |-> FALSE, killed |-> TRUE, result |-> "None",
                      error |-> "absent"]
Failed            == [success |-> FALSE, killed |-> FALSE, result |-> "None",
                      error |-> "message"]
run_safe(text) ==
    IF text.form = "garbage" THEN {Failed}
    ELSE {Succeeded("expected"), Succeeded("other"), Succeeded("None"), Killed, Failed}

\* result.get("error", default)
get_error(r, default) == IF r.error = "absent" THEN default ELSE r.error

\* what run_candidate_with_watchdog returns for the watchdog result r
run_candidate_report(r) ==
    IF ~r.success THEN <<FALSE, get_error(r, "Watchdog failure")>>
    ELSE IF r.result = "None" THEN <<FALSE, "No 'solve' function defined">>
    ELSE <<TRUE, "Result: {}, Expected: {}">>

\* what evaluate_code_with_watchdog does with the watchdog result r of one io
\* pair: it goes on to the next pair, or returns (False, None)
evaluate_report(r) ==
    IF ~r.success THEN <<FALSE, "None">>
    ELSE IF r.result # "expected" THEN <<FALSE, "None">>
    ELSE <<"next pair", "">>

Handed(path, code, text, r, ret) ==
    [path |-> path, code |-> code, text |-> text, verdicts |-> verdicts,
     result |-> r, ret |-> ret]

(***************************************************************************)
(* Execution-path operations                                               *)
(***************************************************************************)
\* a caller takes up a candidate text
Propose(c) ==
    /\ trial = None
    /\ cand' = c
    /\ verdicts' = NoVerdicts
    /\ last_call' = None
    /\ UNCHANGED <<trial, interpVars, hashVars, scoreVars, loopVars>>

RunCandidateWithWatchdog ==
    /\ cand # None
    /\ trial = None
    /\ LET wrapper == run_candidate_wrapper(cand) IN
       \E r \in run_safe(wrapper) :
          last_call' = Handed("run_candidate_with_watchdog", cand, wrapper, r,
                              run_candidate_report(r))
    /\ UNCHANGED <<trial, valVars, interpVars, hashVars, scoreVars, loopVars>>

WatchdogCallable(inject_primitives) ==
    /\ cand # None
    /\ trial = None
    /\ LET wrapper == callable_wrapper(cand, s_f, inject_primitives) IN
       \E r \in run_safe(wrapper) :
          last_call' = Handed("make_watchdog_callable", cand, wrapper, r,
                              IF ~r.success THEN <<"raise", "RuntimeError">>
                              ELSE <<"return", r.result>>)
    /\ UNCHANGED <<trial, valVars, interpVars, hashVars, scoreVars, loopVars>>

WatchdogExprCallable(params, inject_primitives) ==
    /\ cand # None
    /\ trial = None
    /\ LET wrapper == expr_callable_wrapper(cand, params, inject_primitives) IN
       \E r \in run_safe(wrapper) :
          last_call' = Handed("make_watchdog_expr_callable", cand, wrapper, r,
                              IF ~r.success THEN <<"raise", "RuntimeError">>
                              ELSE <<"return", r.result>>)
    /\ UNCHANGED <<trial, valVars, interpVars, hashVars, scoreVars, loopVars>>

\* run_trials: the synthesizer yields the next candidate and
\* evaluate_code_with_watchdog starts on it
RunTrialsNext(c, pairs) ==
    /\ trial = None
    /\ cand' = c
    /\ verdicts' = NoVerdicts
    /\ trial' = [code |-> c, left |-> pairs, ok |-> TRUE]
    /\ last_call' = None
    /\ UNCHANGED <<interpVars, hashVars, scoreVars, loopVars>>

\* evaluate_code_with_watchdog: one turn of the loop over io_pairs
EvaluatePair ==
    /\ trial # None
    /\ trial.left > 0
    /\ LET text == snippet(trial.code) IN
       \E r \in run_safe(text) :
          LET good == r.success /\ r.result = "expected" IN
          /\ last_call' = Handed("evaluate_code_with_watchdog", trial.code, text, r,
                                 evaluate_report(r))
          /\ trial' = IF good THEN [trial EXCEPT !.left = @ - 1]
                      ELSE [trial EXCEPT !.left = 0, !.ok = FALSE]
    /\ UNCHANGED <<valVars, interpVars, hashVars, scoreVars, loopVars>>

\* evaluate_code_with_watchdog returns and run_trials goes on
EvaluateReturn ==
    /\ trial # None
    /\ trial.left = 0
    /\ trial' = None
    /\ last_call' = IF last_call = None \/ ~trial.ok THEN last_call
                    ELSE [last_call EXCEPT !.ret = <<TRUE, "elapsed">>]
    /\ UNCHANGED <<valVars, interpVars, hashVars, scoreVars, loopVars>>

(***************************************************************************)
(* Execution-path inputs                                                   *)
(***************************************************************************)
IoPairs == 2
SolveDef == FunctionDef(s_solve, <<Return(Name(s_n))>>)
ExecCandidates ==
    { ExecText(StmtsText(<<SolveDef>>), TRUE),
      ExecText(StmtsText(<<SolveDef>>), FALSE),
      ExecText(ExprText(Name(s_x)), FALSE),
      ExecText(ExprText(Call(Attribute(Call(Name(s_import), <<Constant>>), s_getcwd),
                             <<>>)), FALSE),
      ExecText(StmtsText(<<Import, SolveDef>>), TRUE),
      ExecText(GarbageText, FALSE) }

InitExec == ValIdle /\ ExecIdle /\ InterpIdle /\ HashIdle /\ ScoreIdle /\ LoopIdle
NextExec ==
    \/ \E c \in ExecCandidates : Propose(c)
    \/ (cand # None /\ trial = None /\ \E frames \in HostFrames : ValidateCode(frames))
    \/ (cand # None /\ trial = None /\ \E frames \in HostFrames : ValidateProgram(frames))
    \/ (cand # None /\ trial = None /\ \E frames \in HostFrames : ValidateAlgoProgram(frames))
    \/ (cand # None /\ trial = None /\ \E frames \in HostFrames : ValidateExpr(frames))
    \/ RunCandidateWithWatchdog
    \/ \E inject \in BOOLEAN : WatchdogCallable(inject)
    \/ \E inject \in BOOLEAN : \E params \in {<<>>, <<s_x>>, <<s_x, s_y>>} :
          WatchdogExprCallable(params, inject)
    \/ \E c \in ExecCandidates : \E pairs \in 0..IoPairs : RunTrialsNext(c, pairs)
    \/ EvaluatePair
    \/ EvaluateReturn
SpecExec == InitExec /\ [][NextExec]_vars

(***************************************************************************)
(* The bounded improvement loop (src/rsi_watchdog_loop.py, run_loop).      *)
(* `loop` holds the arguments of the call, the capped values the loop      *)
(* works with, the position in the loop body, and counts of what has been  *)
(* executed.  The synthesizer that proposes the candidates of a trial is   *)
(* outside src/; a trial is counted, not followed.                         *)
(***************************************************************************)
MAX_ROUNDS == 20
TRIALS_PER_ROUND == 50

Min(a, b) == IF a <= b THEN a ELSE b

\* normalize_caps(rounds, trials)
normalize_caps(rounds, trials) == <<Min(rounds, MAX_ROUNDS), Min(trials, TRIALS_PER_ROUND)>>

\* len(build_tasks(seed, trials)): one task for each i in range(trials)
build_tasks_len(trials) == IF trials > 0 THEN trials ELSE 0

\* run_loop(rounds, trials, ...) up to the for statement
RunLoop(rounds, trials) ==
    /\ IF loop = None THEN TRUE ELSE loop.at = "returned"
    /\ LET caps == normalize_caps(rounds, trials) IN
       loop' = [asked |-> [rounds |-> rounds, trials |-> trials],
                rounds |-> caps[1], trials |-> caps[2],
                round_idx |-> 0, at |-> "for", tasks |-> 0,
                rounds_run |-> 0, trials_run |-> 0, summaries |-> 0, raised |-> "nothing"]
    /\ UNCHANGED <<valVars, execVars, interpVars, hashVars, scoreVars>>

\* for round_idx in range(rounds): tasks = build_tasks(...); snapshot_artifacts(...)
RoundBegin ==
    /\ loop # None /\ loop.at = "for"
    /\ loop.round_idx < loop.rounds
    /\ loop' = [loop EXCEPT !.tasks = build_tasks_len(loop.trials),
                            !.rounds_run = @ + 1,
                            !.at = "control"]
    /\ UNCHANGED <<valVars, execVars, interpVars, hashVars, scoreVars>>

\* run_trials(tasks, ..., use_meta, ...): one trial, with its watchdog runs, for
\* each task
RunTrials(use_meta) ==
    /\ loop # None /\ loop.at = (IF use_meta THEN "treatment" ELSE "control")
    /\ loop' = [loop EXCEPT !.trials_run = @ + loop.tasks,
                            !.at = IF use_meta THEN "summarize" ELSE "treatment"]
    /\ UNCHANGED <<valVars, execVars, interpVars, hashVars, scoreVars>>

\* summarize_round, the metrics line, the snapshot after the round
RoundEnd ==
    /\ loop # None /\ loop.at = "summarize"
    /\ loop' = [loop EXCEPT !.summaries = @ + 1, !.round_idx = @ + 1, !.at = "for"]
    /\ UNCHANGED <<valVars, execVars, interpVars, hashVars, scoreVars>>

\* write_summary(output_dir, summaries); return output_dir
LoopReturn ==
    /\ loop # None /\ loop.at = "for"
    /\ loop.round_idx >= loop.rounds
    /\ loop' = [loop EXCEPT !.at = "returned"]
    /\ UNCHANGED <<valVars, execVars, interpVars, hashVars, scoreVars>>

\* requests below, at and above the caps (Excess above at most)
Excess == 2
LoopRounds == {-1, 0, 1} \cup (MAX_ROUNDS - 1)..(MAX_ROUNDS + Excess)
LoopTrials == {0, 1, TRIALS_PER_ROUND, TRIALS_PER_ROUND + Excess}

InitLoop == ValIdle /\ ExecIdle /\ InterpIdle /\ HashIdle /\ ScoreIdle /\ LoopIdle
NextLoop ==
    \/ \E rounds \in LoopRounds : \E trials \in LoopTrials : RunLoop(rounds, trials)
    \/ RoundBegin
    \/ \E use_meta \in BOOLEAN : RunTrials(use_meta)
    \/ RoundEnd
    \/ LoopReturn
SpecLoop == InitLoop /\ [][NextLoop]_vars

(***************************************************************************)
(* Claims about the structural validators (checked under SpecVal)          *)
(***************************************************************************)
ParseMode(policy) == IF policy = "expr" THEN "eval" ELSE "exec"
Parsed(policy) == ast_parse(cand, ParseMode(policy))

\* a node class that the policy's whitelist names neither directly nor through
\* its base class
NotWhitelisted(kind, policy) ==
    kind \notin ALLOWED(policy) /\ SuperClass(kind) \notin ALLOWED(policy)

HasForeignNode(policy) ==
    /\ Parsed(policy).ok
    /\ \E i \in 1..Len(Parsed(policy).tree) : NotWhitelisted(Parsed(policy).tree[i].kind, policy)

\* C1 (default-deny): under each policy, a candidate whose tree holds a node of a
\* class outside the policy's whitelist is rejected, wherever the node sits and
\* whatever else the tree holds.
C1_DefaultDeny ==
    \A policy \in Policies :
        (verdicts[policy] # None /\ HasForeignNode(policy)) => ~verdicts[policy].ok

\* C1 witness: a candidate with a foreign node has been validated, and a second
\* violation visited after the foreign node has overwritten the message.
C1_Witness ==
    \E policy \in Policies :
        /\ verdicts[policy] # None
        /\ HasForeignNode(policy)
        /\ verdicts[policy].reason.fmt = "Forbidden name: {}"

\* C2: no accepted candidate holds a Name whose id starts with "__" or is a
\* forbidden identifier, nor an Attribute whose attr starts with "__".
C2_NoForbiddenIdentifier ==
    \A policy \in Policies :
        (verdicts[policy] # None /\ verdicts[policy].ok) =>
            \A i \in 1..Len(Parsed(policy).tree) :
                LET n == Parsed(policy).tree[i] IN
                /\ n.kind = "Name" =>
                      ~(StartsWithDunder(n.id)
                        \/ n.id \in {s_open, s_eval, s_exec, s_compile, s_import,
                                     s_globals, s_locals})
                /\ n.kind = "Attribute" => ~StartsWithDunder(n.id)

\* C2 witness: an accepted candidate that holds both a Name and an Attribute.
C2_Witness ==
    \E policy \in Policies :
        /\ verdicts[policy] # None
        /\ verdicts[policy].ok
        /\ \E i, j \in 1..Len(Parsed(policy).tree) :
               /\ Parsed(policy).tree[i].kind = "Name"
               /\ Parsed(policy).tree[j].kind = "Attribute"

\* The structural quantities of the candidate's tree against the ceilings the
\* source defines for a policy: program_limits_ok's for "program",
\* algo_program_limits_ok's for "algo".  The source defines none for "code"; the
\* largest it defines (algo's) stand in for them.
ExceedsCeiling(policy) ==
    LET t == Parsed(policy).tree IN
    /\ Parsed(policy).ok
    /\ IF policy = "program"
       THEN \/ Len(t) > program_max_nodes
            \/ TreeDepth(t) > program_max_depth
            \/ Cardinality(NameIds(t)) > program_max_locals
       ELSE \/ Len(t) > algo_max_nodes
            \/ TreeDepth(t) > algo_max_depth
            \/ CountKind(t, "FunctionDef") > algo_max_funcs
            \/ Cardinality(NameIds(t)) > algo_max_locals
            \/ CountKind(t, "Constant") > algo_max_consts
            \/ CountKind(t, "Subscript") > algo_max_subscripts

AllNodesPass(policy) ==
    /\ Parsed(policy).ok
    /\ \A i \in 1..Len(Parsed(policy).tree) :
           node_check(policy, {}, Parsed(policy).tree, i) = None

\* the traversal of the call ran out of host stack
StackExhausted(policy) == verdicts[policy] = [ok |-> FALSE, reason |-> RecursionReason]

POfOne == DSLApp(s_p, <<One>>)
RunFinished == pc = "idle" /\ outcome # None /\ outcome.op = "run"

\* C4 as claimed: with p reaching itself, directly or through a cycle of
\* primitives, run(Apply(p,[Literal(1)]), {}) ends in the step-budget
\* ExecutionError, the step counter having passed MAX_STEPS.
C4_RecursionEndsInStepBudget ==
    (RunFinished /\ run_input = [expr |-> POfOne, env |-> <<>>]) =>
        /\ outcome.kind = "ExecutionError"
        /\ outcome.msg = "Maximum execution steps exceeded"
        /\ step_count > MAX_STEPS

\* C5 as claimed: whenever an execution path has handed a text to run_safe, some
\* validation policy had accepted the candidate before the call.
C5_RunSafeOnlyOnAcceptedText ==
    last_call # None =>
        \E policy \in Policies :
            /\ last_call.verdicts[policy] # None
            /\ last_call.verdicts[policy].ok

KnownOps == ALLOWED_OPS \cup PrimNames(custom_primitives)

\* C6: a step of run that applies an operator name which is neither a built-in
\* nor a registered primitive ends the run with the SecurityError that _eval_app
\* raised: no value, no ExecutionError, the exception as it was raised.
C6_UnknownOperatorIsSecurityError ==
    [][ ( /\ pc = "run"
          /\ ctl.m = "call"
          /\ ctl.expr.tag = "DSLApp"
          /\ ctl.expr.func \notin KnownOps )
        => ( /\ pc' = "idle"
             /\ outcome'.op = "run"
             /\ outcome'.kind = "SecurityError"
             /\ outcome'.raised = Exc("SecurityError", "Unknown function: {}")
             /\ outcome'.msg = outcome'.raised.msg ) ]_vars

\* C6 witness: a run of a registered primitive whose body applies an unknown
\* operator has ended in that SecurityError.
C6_Witness ==
    /\ RunFinished
    /\ run_input.expr.tag = "DSLApp"
    /\ run_input.expr.func \in PrimNames(custom_primitives)
    /\ outcome.kind = "SecurityError"
    /\ outcome.msg = "Unknown function: {}"

\* C7: a finished run has returned a value or raised ExecutionError or
\* SecurityError; an exception of any other class that left _eval has reached
\* the caller as ExecutionError.
C7_OnlyDeclaredErrors ==
    RunFinished =>
        /\ outcome.kind \in {"value", "ExecutionError", "SecurityError"}
        /\ (outcome.raised # None
            /\ outcome.raised.kind \notin {"ExecutionError", "SecurityError"}) =>
               outcome.kind = "ExecutionError"

\* C7 witness: the host stack overflowed under a recursive primitive and the run
\* ended in ExecutionError.
C7_Witness ==
    /\ RunFinished
    /\ outcome.raised # None
    /\ outcome.raised.kind = "RecursionError"
    /\ outcome.kind = "ExecutionError"

NotAnIdentifierString(name) == name.t # "str" \/ ~IsIdentifier(name.v)

\* C8: register_primitive with a name that is a built-in operator's, or that is
\* not a string that is an identifier, raises SecurityError and leaves the
\* primitive table as it was.
C8_RegisterRejectsAndKeepsTable ==
    (outcome # None /\ outcome.op = "register"
     /\ (NotAnIdentifierString(outcome.name) \/ outcome.name.v \in ALLOWED_OPS)) =>
        /\ outcome.exc # None
        /\ outcome.exc.kind = "SecurityError"
        /\ custom_primitives = outcome.before

\* C8 witness: a built-in's name was refused while the table held a primitive.
C8_Witness ==
    /\ outcome # None
    /\ outcome.op = "register"
    /\ outcome.name = StrV(op_add)
    /\ outcome.exc # None
    /\ outcome.before # <<>>

(***************************************************************************)
(* Claims about the semantic hasher (checked under SpecHash)               *)
(***************************************************************************)
\* the variable names of an expression, each occurrence, left to right
RECURSIVE VarOccurrences(_)
VarOccurrences(e) ==
    IF e.tag = "DSLVar" THEN <<e.name>>
    ELSE IF e.tag = "DSLApp"
    THEN ConcatRange([i \in 1..Len(e.args) |-> VarOccurrences(e.args[i])], 1, Len(e.args))
    ELSE <<>>

\* for each occurrence, how many other names appeared before its name first did
FirstAppearanceNumbers(occ) ==
    [i \in 1..Len(occ) |->
        LET first == CHOOSE j \in 1..Len(occ) :
                        occ[j] = occ[i] /\ \A k \in 1..(j - 1) : occ[k] # occ[i]
        IN Cardinality({occ[k] : k \in 1..(first - 1)})]

\* the numbers written after each "X" of a key
XNumbers(key) ==
    LET at == SelectSeq([i \in 1..Len(key) |-> i], LAMBDA i : key[i] = "X")
    IN [k \in 1..Len(at) |-> CHOOSE d \in 0..9 : DigitChar(d) = key[at[k] + 1]]

RECURSIVE Rename(_, _)
Rename(e, r) ==
    IF e.tag = "DSLVar" THEN DSLVar(r[e.name])
    ELSE IF e.tag = "DSLApp"
    THEN DSLApp(e.func, [i \in 1..Len(e.args) |-> Rename(e.args[i], r)])
    ELSE e

Renamings ==
    {r \in [HashVarNames -> HashVarNames] : \A x, y \in HashVarNames : r[x] = r[y] => x = y}

\* C9: an expression and its image under an injective renaming of the variables
\* hash to the same key, and each call numbers the variables X0, X1, ... in the
\* order of their first appearance from left to right, starting again from X0.
C9_RenameInvariant ==
    h_out # None =>
        /\ (\E r \in Renamings : h_in[2] = Rename(h_in[1], r)) =>
               h_out.keys[1] = h_out.keys[2]
        /\ \A k \in {1, 2} :
               XNumbers(h_out.keys[k]) = FirstAppearanceNumbers(VarOccurrences(h_in[k]))

\* C9 witness: add(add(a,b),a) and add(add(b,c),b) have been hashed.
C9_Witness ==
    /\ h_out # None
    /\ h_in[1] = DSLApp(op_add, <<DSLApp(op_add, <<DSLVar(s_a), DSLVar(s_b)>>), DSLVar(s_a)>>)
    /\ h_in[2] = DSLApp(op_add, <<DSLApp(op_add, <<DSLVar(s_b), DSLVar(s_c)>>), DSLVar(s_b)>>)
    /\ h_out.keys[1] = <<"a","d","d","(","a","d","d","(","X","0",",","X","1",")",",","X","0",")">>

\* add(x, y) against add(y, x)
Swapped(x, y) == h_in = <<DSLApp(op_add, <<x, y>>), DSLApp(op_add, <<y, x>>)>>

\* C10 as claimed: for distinct variable names a and b the keys of add(a,b) and
\* add(b,a) differ.
C10_VariableOrderDistinguished ==
    \A a, b \in HashVarNames :
        (h_out # None /\ a # b /\ Swapped(DSLVar(a), DSLVar(b))) =>
            h_out.keys[1] # h_out.keys[2]

\* C10 as amended: for distinct variable names a and b, add(a,b) and add(b,a)
\* both hash to add(X0,X1) and are reported equivalent; the order of a variable
\* and a literal is told apart.
C10_VariableOrderNotDistinguished ==
    \A a, b \in HashVarNames :
        /\ (h_out # None /\ a # b /\ Swapped(DSLVar(a), DSLVar(b))) =>
               /\ h_out.keys[1] = <<"a","d","d","(","X","0",",","X","1",")">>
               /\ h_out.keys[2] = h_out.keys[1]
               /\ h_out.equivalent
        /\ (h_out # None /\ Swapped(DSLVar(a), One)) =>
               /\ h_out.keys[1] # h_out.keys[2]
               /\ ~h_out.equivalent

\* C10 witness: add(a,b) and add(b,a) have been hashed and found equivalent.
C10_Witness ==
    /\ h_out # None
    /\ Swapped(DSLVar(s_a), DSLVar(s_b))
    /\ h_out.equivalent
(***************************************************************************)
(* Claims about the utility scorer (checked under SpecScore)               *)
(***************************************************************************)
ScoreCalled == score_in # None
ScoredWith(num, den, usage_count, is_unique) ==
    /\ ScoreCalled
    /\ score_in.compression_ratio = Float(num, den)
    /\ score_in.usage_count = usage_count
    /\ score_in.is_unique = is_unique

RefValue(n) == [kind |-> "value", val |-> n]
RefFails == [kind |-> "ExecutionError"]
RefRange(a) == LET m == IF a < 0 THEN 0 - a ELSE a IN (0 - m)..m
RefQuotient(a, b) ==
    CHOOSE q \in RefRange(a) :
        IF b > 0 THEN b * q <= a /\ a < b * q + b ELSE b * q >= a /\ a > b * q + b
RefOp(op, a) ==
    CASE op = op_add -> a[1] + a[2]
      [] op = op_sub -> a[1] - a[2]
      [] op = op_mul -> a[1] * a[2]
      [] op = op_div -> IF a[2] = 0 THEN 0 ELSE RefQuotient(a[1], a[2])
      [] op = op_mod -> IF a[2] = 0 THEN 0 ELSE a[1] - a[2] * RefQuotient(a[1], a[2])
      [] op = op_neg -> 0 - a[1]
      [] op = op_abs -> IF a[1] < 0 THEN 0 - a[1] ELSE a[1]
      [] op = op_min -> IF a[1] <= a[2] THEN a[1] ELSE a[2]
      [] op = op_max -> IF a[1] >= a[2] THEN a[1] ELSE a[2]
RECURSIVE RefEval(_, _)
RefEval(expr, env) ==
    IF expr.tag = "DSLVal" THEN RefValue(expr.value.v)
    ELSE IF expr.tag = "DSLVar"
    THEN IF expr.name \in DOMAIN env THEN RefValue(env[expr.name].v) ELSE RefFails
    ELSE LET r == [i \in 1..Len(expr.args) |-> RefEval(expr.args[i], env)] IN
         IF \E i \in 1..Len(r) : r[i].kind # "value" THEN RefFails
         ELSE RefValue(RefOp(expr.func, [i \in 1..Len(r) |-> r[i].val]))

RanExpr(expr, env) == RunFinished /\ run_input = [expr |-> expr, env |-> env]

\* C12: on arithmetic applications of the right arity over ints, run(expr, env)
\* returns what the reference evaluator gives (floor division and modulo, zero
\* divisor gives 0) and raises ExecutionError where the reference fails on an
\* unbound variable; add(mul(n, 2), 1) with n = 5 is 11 and div(7, 0) is 0.
C12_AgreesWithReference ==
    /\ RunFinished =>
          LET r == RefEval(run_input.expr, run_input.env) IN
          IF r.kind = "value"
          THEN outcome.kind = "value" /\ outcome.val = IntV(r.val)
          ELSE outcome.kind = "ExecutionError" /\ outcome.msg = "Undefined variable: {}"
    /\ RanExpr(DSLApp(op_add, <<DSLApp(op_mul, <<DSLVar(s_n), DSLVal(IntV(2))>>), One>>),
               [k \in {s_n} |-> IntV(5)])
          => outcome.val = IntV(11)
    /\ \A env \in ArithEnvs :
          RanExpr(DSLApp(op_div, <<DSLVal(IntV(7)), DSLVal(IntV(0))>>), env)
             => outcome.val = IntV(0)
\* a quotient that floor and truncation round differently: div(-7, 2) is -4
C12_Witness ==
    /\ RanExpr(DSLApp(op_div, <<DSLVal(IntV(0 - 7)), DSLVal(IntV(2))>>), <<>>)
    /\ outcome.val = IntV(0 - 4)

(***************************************************************************)
(* Claims about applications (checked under SpecApply)                     *)
(***************************************************************************)
\* what one _eval call on a leaf argument raises, None when it returns a value
LeafError(arg, env) ==
    IF arg.tag = "DSLVal" THEN None
    ELSE IF arg.tag = "DSLVar"
    THEN IF arg.name \in DOMAIN env THEN None
         ELSE Exc("ExecutionError", "Undefined variable: {}")
    ELSE IF arg.tag = "DSLApp" THEN Exc("SecurityError", "Unknown function: {}")
    ELSE Exc("SecurityError", "Unknown expression type: {}")
FailingArgs(expr, env) == {i \in 1..Len(expr.args) : LeafError(expr.args[i], env) # None}
Leftmost(S) == CHOOSE i \in S : \A j \in S : i <= j
\* _eval calls a primitive's body costs once the arguments are bound
BodyCalls(func) == IF func = s_p THEN 3 ELSE 0

\* C13: in an application of a built-in or of a registered primitive every argument
\* is evaluated once, in index order, before the operator is applied, with no
\* short-circuit: when an argument fails the run raises the error of the leftmost
\* failing one after exactly the _eval calls up to it, and when none fails the
\* run has made one _eval call per argument before the operator ran.
C13_ArgumentsInOrderNoShortCircuit ==
    (RunFinished /\ run_input.expr \in ApplyExprs) =>
        LET expr == run_input.expr
            failing == FailingArgs(expr, run_input.env)
        IN IF failing # {}
           THEN /\ outcome.raised = LeafError(expr.args[Leftmost(failing)], run_input.env)
                /\ step_count = 1 + Leftmost(failing)
           ELSE /\ step_count = 1 + Len(expr.args) + BodyCalls(expr.func)
                /\ outcome.raised # None =>
                      outcome.raised = Exc("ExecutionError", "Arity mismatch for {}: {}")
\* and_op with a falsy first argument still evaluates its second, which fails
C13_Witness ==
    /\ RanExpr(DSLApp(op_and_op, <<Zero, DSLVar(s_x)>>), ApplyEnv)
    /\ outcome.raised = Exc("ExecutionError", "Undefined variable: {}")
    /\ step_count = 3

\* the activations on the stack that evaluate a primitive's body
BodyFrames(st) == {i \in 1..Len(st) : st[i].kind = "body"}
\* the number of arguments of the primitive whose body is under evaluation
BoundCount(st) ==
    Len(st[CHOOSE i \in BodyFrames(st) : \A j \in BodyFrames(st) : j <= i].args)
IsPositional(name, from) == \E j \in from..9 : name = VarName(j)

\* C14: inside the body of a primitive applied to k arguments, a reference to
\* var_j with j >= k is not resolved to a binding that an enclosing primitive
\* call or the caller made: the environment in which the reference is looked up
\* does not hold that name.
C14_NoInheritedPositional ==
    (/\ pc = "run"
     /\ ctl.m = "call"
     /\ ctl.expr.tag = "DSLVar"
     /\ BodyFrames(stack) # {}
     /\ IsPositional(ctl.expr.name, BoundCount(stack)))
        => ctl.expr.name \notin DOMAIN ctl.env

\* C15: first, second, last, reverse, len, slice_from, slice_to and index return a
\* value, and never fail, on an int, a bool, a sequence or None and an int index.
C15_SequenceOpsTotal ==
    (RunFinished /\ run_input.expr \in SeqExprs) => outcome.kind = "value"

(***************************************************************************)
(* Claims about the primitive table (checked under SpecInterp)             *)
(***************************************************************************)
\* C18: no interpreter operation changes the body of a registered primitive: in
\* every step a name that stays in the table keeps its body, and a name leaves
\* the table only in an unregister of that name.
C18_BodyNeverChanged ==
    [][\A name \in PrimNames(custom_primitives) :
          IF name \in PrimNames(custom_primitives')
          THEN PrimBody(custom_primitives', name) = PrimBody(custom_primitives, name)
          ELSE outcome'.op = "unregister" /\ outcome'.name = name]_vars

BuiltinCount == Len(ALLOWED_OPS_keys)
RegisteredPart(ops) == SubSeq(ops, BuiltinCount + 1, Len(ops))
Elements(seq) == {seq[i] : i \in 1..Len(seq)}
Without(seq, x) == SelectSeq(seq, LAMBDA y : y # x)
RegisteredNow(name) == outcome # None /\ outcome.op = "register" /\ outcome.exc = None
                       /\ outcome.name = StrV(name)

\* C19: get_all_ops lists the built-ins first, in their fixed order, and then the
\* registered primitives in the order in which their entries were registered: a
\* successful register of a new name (one never registered, or unregistered
\* since) puts it last, a register of a name already in the table leaves the
\* list as it is, an unregister takes the name out and keeps the order of the
\* others, and nothing else changes the list.
C19_BuiltinsThenRegistrationOrder ==
    [][LET before == get_all_ops(custom_primitives)
           after  == get_all_ops(custom_primitives')
           o      == outcome'
       IN /\ SubSeq(after, 1, BuiltinCount) =
                <<op_add, op_sub, op_mul, op_div, op_mod, op_neg, op_abs, op_min, op_max,
                  op_if_gt, op_if_eq, op_if_lt, op_eq, op_gt, op_lt,
                  op_and_op, op_or_op, op_not_op, op_xor_op,
                  op_len, op_first, op_second, op_last, op_reverse, op_concat,
                  op_slice_from, op_slice_to, op_index, op_id>>
          /\ IF o # None /\ o.op = "register" /\ o.exc = None
             THEN IF o.name.v \in Elements(RegisteredPart(before))
                  THEN after = before
                  ELSE after = Append(before, o.name.v)
             ELSE IF o # None /\ o.op = "unregister"
             THEN RegisteredPart(after) = Without(RegisteredPart(before), o.name)
             ELSE after = before
          /\ (o # None /\ o.op = "get_all_ops") => o.ret = before]_vars
\* q was registered after p, and p has just been registered again: p is still
\* listed before q
C19_Witness ==
    /\ RegisteredNow(s_p)
    /\ s_p \in PrimNames(outcome.before)
    /\ RegisteredPart(get_all_ops(custom_primitives)) = <<s_p, s_q>>

\* C20: unregister_primitive returns true and removes the entry exactly when the
\* name is registered, and returns false and changes nothing otherwise; a second
\* unregister of the same name right after the first returns false and leaves
\* the table as the first left it.
C20_UnregisterIdempotent ==
    [][LET o == outcome' IN
       (o # None /\ o.op = "unregister") =>
          /\ o.ret \in BOOLEAN
          /\ o.ret = TRUE <=> o.name \in PrimNames(o.before)
          /\ o.name \notin PrimNames(custom_primitives')
          /\ \A name \in PrimNames(o.before) \ {o.name} :
                /\ name \in PrimNames(custom_primitives')
                /\ PrimBody(custom_primitives', name) = PrimBody(o.before, name)
          /\ ~o.ret => custom_primitives' = o.before
          /\ (outcome # None /\ outcome.op = "unregister" /\ outcome.name = o.name) =>
                o.ret = FALSE /\ custom_primitives' = custom_primitives]_vars
\* an unregister that removed the entry of p and left the other one
C20_Witness ==
    /\ outcome # None /\ outcome.op = "unregister" /\ outcome.name = s_p
    /\ outcome.ret = TRUE
    /\ PrimNames(outcome.before) = {s_p, s_q}
    /\ PrimNames(custom_primitives) = {s_q}

(***************************************************************************)
(* Claims about the watchdog results (checked under SpecExec)              *)
(***************************************************************************)
Reporting == {"run_candidate_with_watchdog", "evaluate_code_with_watchdog"}
Report(path, r) ==
    IF path = "run_candidate_with_watchdog" THEN run_candidate_report(r)
    ELSE evaluate_report(r)

\* C16: run_candidate_with_watchdog and evaluate_code_with_watchdog report a
\* killed watchdog result differently from an ordinary failure: what either
\* returns for {success: false, killed: true} is not what it returns for
\* {success: false, killed: false, error: msg}.
C16_KilledDistinctFromFailed ==
    (/\ last_call # None
     /\ last_call.path \in Reporting
     /\ last_call.result.killed)
        => last_call.ret # Report(last_call.path, Failed)

(***************************************************************************)
(* Claims about repeated validation (checked under SpecVal)                *)
(***************************************************************************)
IsVerdict(r) == r.ok \in BOOLEAN /\ DOMAIN r = {"ok", "reason"}

\* C17: validation is total and deterministic: every validate_* call returns an
\* (ok, reason) pair without raising, and a call on the same candidate under the
\* same policy returns the verdict and the reason the call before it returned.
C17_TotalAndDeterministic ==
    [][\A policy \in Policies :
          /\ verdicts'[policy] # None => IsVerdict(verdicts'[policy])
          /\ (cand' = cand /\ verdicts[policy] # None /\ verdicts'[policy] # None) =>
                verdicts'[policy] = verdicts[policy]]_vars

(***************************************************************************)
(* Claims about what a run leaves behind (checked under SpecInterp)        *)
(***************************************************************************)
\* C21: while run is on the stack, from the call to the return or the raise, no
\* step changes the primitive table, and none changes the bindings of the dict
\* the caller handed in (the var_i bound for a primitive call go to a copy).
C21_RunLeavesTableAndEnv ==
    [][(pc = "run" \/ pc' = "run") =>
          /\ custom_primitives' = custom_primitives
          /\ pc = "run" => run_input'.env = run_input.env]_vars
\* p(1) has returned, after var_0 was bound for its body: the caller's dict still
\* binds n alone
C21_Witness ==
    /\ RunFinished
    /\ run_input.expr = DSLApp(s_p, <<One>>)
    /\ outcome.kind = "value"
    /\ s_p \in PrimNames(custom_primitives)
    /\ DOMAIN run_input.env = {s_n}

(***************************************************************************)
(* Claims about loops, attributes and forbidden names (checked under       *)
(* SpecVal)                                                                *)
(***************************************************************************)
HasKind(policy, kinds) ==
    /\ Parsed(policy).ok
    /\ \E i \in 1..Len(Parsed(policy).tree) : Parsed(policy).tree[i].kind \in kinds

\* the messages of the visit methods in which the word "Forbidden" occurs
ForbiddenReasons ==
    {"Forbidden: {}", "Forbidden expr node: {}", "Forbidden name: {}",
     "Forbidden attribute: {}", "Forbidden call form (non-Name/Attribute callee)",
     "Forbidden subscript on builtin"}
MentionsForbidden(reason) == reason.fmt \in ForbiddenReasons

\* C22: validate_program rejects every program that holds a while or for
\* statement, a break or a continue, wherever it stands, and the reason it gives
\* contains "Forbidden".
C22_LoopRejectedAsForbidden ==
    (verdicts["program"] # None /\ HasKind("program", {"While", "For", "Break", "Continue"}))
        => /\ ~verdicts["program"].ok
           /\ MentionsForbidden(verdicts["program"].reason)

\* C23: validate_program rejects every program that holds an attribute access,
\* whatever the attribute's name.
C23_AttributeRejected ==
    (verdicts["program"] # None /\ HasKind("program", {"Attribute"}))
        => ~verdicts["program"].ok

\* C24: validate_code and validate_algo_program accept, with ok true and an empty
\* reason, a program that holds a for or while loop, whose every node passes the
\* policy's whitelist and rules and that, for algo, is within the structural
\* limits.
C24_LoopsAccepted ==
    \A policy \in {"code", "algo"} :
        (/\ verdicts[policy] # None
         /\ HasKind(policy, {"While", "For"})
         /\ AllNodesPass(policy)
         /\ policy = "algo" => algo_program_limits_ok(cand))
            => verdicts[policy] = [ok |-> TRUE, reason |-> EmptyReason]

RefersToForbiddenName ==
    /\ Parsed("expr").ok
    /\ \E i \in 1..Len(Parsed("expr").tree) :
           /\ Parsed("expr").tree[i].kind = "Name"
           /\ forbidden_name(Parsed("expr").tree[i].id)

\* C25: validate_expr rejects every expression in which a forbidden name occurs
\* (one that starts with "__" or is in FORBIDDEN_NAMES), and the reason it gives
\* contains "Forbidden", whatever else the expression holds.
C25_ForbiddenNameReason ==
    (verdicts["expr"] # None /\ RefersToForbiddenName)
        => /\ ~verdicts["expr"].ok
           /\ MentionsForbidden(verdicts["expr"].reason)

(***************************************************************************)
(* Claims about the improvement loop (checked under SpecLoop)              *)
(***************************************************************************)
\* C26: a run_loop call with rounds above MAX_ROUNDS fails with ValueError, and
\* no round, trial or watchdog run is executed for it.
C26_OversizedRoundsRefused ==
    (loop # None /\ loop.asked.rounds > MAX_ROUNDS) =>
        /\ loop.rounds_run = 0
        /\ loop.trials_run = 0
        /\ loop.at # "for" => loop.raised = "ValueError"

(***************************************************************************)
(* Claims about the names in the primitive table (checked under            *)
(* SpecInterp)                                                             *)
(***************************************************************************)
\* C27: whatever register_primitive and unregister_primitive calls were made,
\* every name in the primitive table is an identifier and is no built-in
\* operator's name; and an application whose operator is a built-in's name is
\* evaluated as the built-in, never through a body from the table.
C27_TableNamesNeverBuiltin ==
    /\ \A name \in PrimNames(custom_primitives) :
           IsIdentifier(name) /\ name \notin ALLOWED_OPS
    /\ \A i \in 1..Len(stack) :
           stack[i].func \in ALLOWED_OPS =>
               stack[i].kind = "builtin" /\ stack[i].body = None
\* with p and q in the table, an application of add is under evaluation
C27_Witness ==
    /\ PrimNames(custom_primitives) = {s_p, s_q}
    /\ pc = "run"
    /\ stack # <<>>
    /\ Top(stack).func = op_add
    /\ Top(stack).kind = "builtin"

(***************************************************************************)
(* Claims about the step counter (checked under SpecRerun)                 *)
(***************************************************************************)
BudgetExceeded ==
    /\ RunFinished
    /\ outcome.kind = "ExecutionError"
    /\ outcome.msg = "Maximum execution steps exceeded"

\* C28: every run starts with the step counter at 0; the counter never passes
\* MAX_STEPS + 1; and a run that completes on an interpreter that has completed
\* runs before (among them runs that passed the budget or failed otherwise)
\* ends as the first run of the same expression and environment on the same
\* table ended, with the same result or error and the same step count.
C28_StepCounterPerRun ==
    [][/\ (pc = "idle" /\ pc' = "run") => step_count' = 0
       /\ step_count' <= MAX_STEPS + 1
       /\ (/\ pc = "run" /\ pc' = "idle"
           /\ first_run.t = "run"
           /\ first_run.input = run_input
           /\ first_run.table = custom_primitives)
              => /\ outcome' = first_run.outcome
                 /\ step_count' = first_run.steps]_vars
\* a run that was not the first on the interpreter has passed the budget: the
\* counter stands at MAX_STEPS + 1
C28_Witness ==
    /\ BudgetExceeded
    /\ step_count = MAX_STEPS + 1
    /\ first_run.t = "run"
    /\ first_run.input # run_input
    /\ first_run.outcome.kind = "ExecutionError"

(***************************************************************************)
(* Claims about the step counter and the node count (checked under         *)
(* SpecSize)                                                               *)
(***************************************************************************)
RECURSIVE UsesOnlyBuiltins(_)
UsesOnlyBuiltins(expr) ==
    IF expr.tag = "DSLApp"
    THEN /\ expr.func \in ALLOWED_OPS
         /\ \A i \in 1..Len(expr.args) : UsesOnlyBuiltins(expr.args[i])
    ELSE expr.tag \in {"DSLVal", "DSLVar"}

\* C29: for an expression over built-in operators only, a run that returns
\* leaves the step counter at compute_size(expr); a run of an expression of at
\* most MAX_STEPS nodes never ends in the step-budget error; and a run of an
\* expression of more than MAX_STEPS nodes ends in the step-budget error unless
\* a node visited before the budget was passed has failed.
C29_StepsEqualNodeCount ==
    (RunFinished /\ UsesOnlyBuiltins(run_input.expr)) =>
        LET size == compute_size(run_input.expr) IN
        /\ outcome.kind = "value" => step_count = size
        /\ size <= MAX_STEPS => ~BudgetExceeded
        /\ size > MAX_STEPS =>
               \/ BudgetExceeded /\ step_count = MAX_STEPS + 1
               \/ outcome.kind # "value" /\ step_count <= MAX_STEPS
\* the balanced tree of additions has returned, its 2^(TreeHeight+1) - 1 nodes
\* counted one step each
C29_Witness ==
    /\ RunFinished
    /\ run_input.expr = SumTree(TreeHeight)
    /\ outcome.kind = "value"
    /\ step_count = compute_size(run_input.expr)
    /\ step_count > 2 * TreeHeight

\* e2 is e1 with its variables renamed by a bijection
EqualUpToRenaming(e1, e2) == \E r \in Renamings : Rename(e1, r) = e2

\* the environment env with each name k replaced by r[k]
RenameEnv(env, r) ==
    [n \in {r[k] : k \in DOMAIN env} |-> env[CHOOSE k \in DOMAIN env : r[k] = n]]

\* the variable names of e
Names(e) == {VarOccurrences(e)[i] : i \in 1..Len(VarOccurrences(e))}

\* e2 is e1 renamed by a bijection that moves no name foreign to both, and
\* env2 is env1 renamed by it: env2 binds each renamed variable to the value
\* env1 binds the original, and differs from env1 in nothing else
RenamedEnv(e1, env1, e2, env2) ==
    \E r \in Renamings :
        /\ Rename(e1, r) = e2
        /\ \A x \in HashVarNames : r[x] # x => x \in Names(e1) \cup Names(e2)
        /\ env2 = RenameEnv(env1, r)

\* run(e1, env1) has completed and then run(e2, env2) has, env2 being env1 renamed
BothRun ==
    /\ first_run # Armed
    /\ first_run.input.expr = h_in[1]
    /\ pc = "idle"
    /\ outcome # None
    /\ run_input.expr = h_in[2]
    /\ RenamedEnv(h_in[1], first_run.input.env, h_in[2], run_input.env)

\* C30: two expressions with equal hashes are equal up to a bijective renaming
\* of their variables, and running the second in the first one's environment,
\* renamed, gives the outcome of running the first.
C30_EqualHashesSameOutcome ==
    (h_out # None /\ h_out.equivalent) =>
        /\ EqualUpToRenaming(h_in[1], h_in[2])
        /\ BothRun => outcome = first_run.outcome

====
